---- MODULE Spec2Model ----
(***************************************************************************)
(* Model of the scan service's retry orchestrator                          *)
(* (src/scan-service/crypto_audit.py): the /scan and /scan-with-progress   *)
(* handlers, the per-domain pipeline handle_scan_with_backoff ->           *)
(* process_single_domain -> run_ssllabs_cli, RetryState, the worker pool   *)
(* of each round and the process-wide cancellation registry.               *)
(***************************************************************************)
EXTENDS Integers, Sequences, FiniteSets, TLC

(* ---- bounds of the model ---- *)
MaxDomains == 2        \* longest request list explored under every kind of fault
MaxTokens == 5         \* longest text of a request's domain field, in tokens
DbDomains == 1         \* longest request list explored with failing persistence calls
PoolDomains == 3       \* longest request list explored with a healthy tool
MaxPosition == 3       \* last position of an algorithm in its list that is scored
MaxEntries == 2        \* longest list of TLS 1.3 suites or of handshake signatures in a scan result
MaxItems == 2          \* longest list handed to remove_duplicates_from_structure

(* ---- program constants ---- *)
max_retries == 3               \* outer round limit
max_backoff_retries == 3       \* inner bound of handle_scan_with_backoff
backoff_base == 5              \* (2 ** retry) * 5
pool_cap == 2                  \* min(2, len(domains_to_scan))
initial_timeout == 600
timeout_increment == 300
default_max_concurrent == 5    \* ScanRequest.max_concurrent

NamePool == <<"a.com", "b.com", "c.com", "d.com", "e.com">>

RequestId == "scan_1"

VARIABLES
    faults,              \* how the DNS lookup / the external tool fail during this request
    endpoint,            \* "scan" (POST /scan) or "stream" (POST /scan-with-progress)
    domains,             \* domains = [d.strip() for d in request.domain.split(',')]
    pc,                  \* position of the handler's control flow
    round_num,           \* loop variable of the round loop
    domains_to_scan,     \* input list of the current round
    retry_state,         \* the RetryState object
    futures,             \* futures submitted to the round's ThreadPoolExecutor
    scan_cancellations,  \* the global dict scan_cancellations (its keys; values are True)
    events,              \* SSE frames yielded so far
    dispatch_log,        \* every executor.submit made: <<round, domain>>
    response,            \* value returned by /scan, or the payload of `complete`
    max_concurrent,      \* request.max_concurrent
    confirmed_offline,   \* history: the domains whose precheck lookup failed
    cancel_requested_at, \* history: where the scan stood when /cancel-scan was called
    request,             \* the ScanRequest: its domain field before and after the validator
    db,                  \* the database service behind db_handler, and the calls it failed
    analyzer             \* the call of a pure function in progress: its input and its result

vars == <<faults, endpoint, domains, pc, round_num, domains_to_scan, retry_state,
          futures, scan_cancellations, events, dispatch_log, response,
          max_concurrent, confirmed_offline, cancel_requested_at, request, db,
          analyzer>>

(* ---- small helpers ---- *)
Range(s) == {s[i] : i \in 1..Len(s)}

Min(a, b) == IF a < b THEN a ELSE b

RECURSIVE Pow2(_)
Pow2(n) == IF n = 0 THEN 1 ELSE 2 * Pow2(n - 1)

\* list.remove(x): drops the first occurrence of x
RemoveFirst(s, x) ==
    LET hit == {i \in 1..Len(s) : s[i] = x}
    IN IF hit = {} THEN s
       ELSE LET k == CHOOSE i \in hit : \A j \in hit : i <= j
            IN [i \in 1..(Len(s) - 1) |-> IF i < k THEN s[i] ELSE s[i + 1]]

(* ---- error details (the texts of the HTTPException details) ---- *)
DnsError == "does not exist (DNS lookup failed)"
CancelledError == "Scan cancelled by user"
TimeoutError == "Scan timed out"
ToolFailedError == "Scan failed"
InvalidJsonError == "Invalid JSON from scan"
WrappedRateLimit == "Error processing: Rate limited"
WrappedNoData == "Error processing: No scan data available"
RateLimitExceeded == "Rate limit exceeded"

(* ---- RetryState ---- *)
\* failed_domains is a dict: modelled as the sequence of its values in
\* insertion order, one record per key.
NewRetryState ==
    [successful_domains |-> <<>>, failed_domains |-> <<>>,
     current_round |-> 0, total_rounds |-> 0, total_processed |-> 0]

FailedKeys(rs) == [i \in 1..Len(rs.failed_domains) |-> rs.failed_domains[i].domain]

get_failed_domains(rs) == FailedKeys(rs)

FailedSet(rs) == Range(FailedKeys(rs))

SuccessSet(rs) == {rs.successful_domains[i].url : i \in 1..Len(rs.successful_domains)}

FailureOf(rs, d) ==
    rs.failed_domains[CHOOSE i \in 1..Len(rs.failed_domains) : rs.failed_domains[i].domain = d]

add_success(rs, result) ==
    [rs EXCEPT !.successful_domains = Append(@, result)]

\* now stands for datetime.now(): <<0, i>> is the instant of the precheck
\* lookup of list entry i, <<r, i>> the instant at which the result of future
\* i is handled in round r, <<r, 0>> the instant at which round r is abandoned
add_failure(rs, domain, error, attempt, now) ==
    LET fd == rs.failed_domains
        hit == {i \in 1..Len(fd) : fd[i].domain = domain}
    IN IF hit = {}
       THEN [rs EXCEPT !.failed_domains =
                Append(fd, [domain |-> domain, error |-> error,
                            last_attempt |-> attempt, first_failed_at |-> now])]
       ELSE LET k == CHOOSE i \in hit : TRUE
            IN [rs EXCEPT !.failed_domains[k] =
                   [domain |-> domain, error |-> error, last_attempt |-> attempt,
                    first_failed_at |-> fd[k].first_failed_at]]

remove_success(rs, domain) ==
    [rs EXCEPT !.failed_domains = SelectSeq(@, LAMBDA r : r.domain # domain)]

\* for domain in ds: retry_state.add_failure(domain, error, attempt)
RECURSIVE AddFailures(_, _, _, _, _)
AddFailures(rs, ds, error, attempt, now) ==
    IF ds = <<>> THEN rs
    ELSE AddFailures(add_failure(rs, Head(ds), error, attempt, now),
                     Tail(ds), error, attempt, now)

(* ---- the cancellation registry ---- *)
is_scan_cancelled(reg, id) == id \in reg

mark_scan_cancelled(reg, id) == reg \cup {id}

clear_cancellation(reg, id) == reg \ {id}

(* ---- persistence (db_handler.DatabaseHandler) ---- *)
\* enabled is decided once, by the health check at start-up
\* flaky: the kinds of call that can fail while this request is served
NewDatabase == [enabled |-> TRUE, flaky |-> {}, batch |-> "none", rows |-> {}, failed_calls |-> 0]

DbCallKinds == {"create_scan_batch", "save_scan_result", "save_failed_scan", "update_batch_status"}

\* what the HTTP call to the database service does: a 200 answer, or
\* anything else (another status, a refused connection, a time-out)
DbOutcomes == {"ok", "error"}

\* variant: the failure of the HTTP call leaves the handler as an exception
db_call_unguarded(outcome) == [ok |-> outcome = "ok", raised |-> outcome # "ok"]

\* try: ... return response.status_code == 200 / except Exception: return False
db_call(outcome) == [ok |-> outcome = "ok", raised |-> FALSE]

\* if not self.enabled: return False, before any call is made
DbWrite(d, outcome, written) ==
    IF ~d.enabled THEN d
    ELSE IF db_call(outcome).ok THEN written
    ELSE [d EXCEPT !.failed_calls = @ + 1]

DbRaised(d, outcome) == d.enabled /\ db_call(outcome).raised

create_scan_batch(d, outcome) == DbWrite(d, outcome, [d EXCEPT !.batch = "pending"])

save_scan_result(d, url, outcome) ==
    DbWrite(d, outcome, [d EXCEPT !.rows = @ \cup {<<url, "completed">>}])

save_failed_scan(d, url, outcome) ==
    DbWrite(d, outcome, [d EXCEPT !.rows = @ \cup {<<url, "failed">>}])

update_batch_status(d, status, outcome) == DbWrite(d, outcome, [d EXCEPT !.batch = status])

(* ---- the per-domain pipeline ---- *)
\* what one run of the external tool can do
ToolOutcomes == {"json", "empty_json", "timeout", "rate_limited", "failed", "invalid_json"}

\* one invocation of the pipeline: the DNS lookup, then (if it resolves) the tool
AllOutcomes ==
    {[dns_ok |-> FALSE, tool |-> "none"]} \cup {[dns_ok |-> TRUE, tool |-> t] : t \in ToolOutcomes}

Healthy == [dns_ok |-> TRUE, tool |-> "json"]

FaultKinds == AllOutcomes \ {Healthy}

\* what an invocation can meet in this request: a healthy run or one of its faults
InvocationOutcomes == {Healthy} \cup faults

Returned(value) == [exc |-> "none", status_code |-> 200, detail |-> value]

Raised(exc, status_code, detail) == [exc |-> exc, status_code |-> status_code, detail |-> detail]

run_ssllabs_cli(tool) ==
    CASE tool = "json" -> Returned("data")
      [] tool = "empty_json" -> Returned("empty")
      [] tool = "timeout" -> Raised("HTTPException", 504, TimeoutError)
      [] tool = "rate_limited" -> Raised("RateLimitException", 0, "Rate limited")
      [] tool = "failed" -> Raised("HTTPException", 500, ToolFailedError)
      [] tool = "invalid_json" -> Raised("HTTPException", 500, InvalidJsonError)

\* try: ... except HTTPException: raise; except Exception: raise HTTPException(500)
process_single_domain(o) ==
    IF ~o.dns_ok THEN Raised("HTTPException", 503, DnsError)
    ELSE LET raw == run_ssllabs_cli(o.tool)
         IN CASE raw.exc = "HTTPException" -> raw
              [] raw.exc = "RateLimitException" -> Raised("HTTPException", 500, WrappedRateLimit)
              [] raw.exc = "none" /\ raw.detail = "empty" -> Raised("HTTPException", 500, WrappedNoData)
              [] OTHER -> Returned("result")

\* variant: the wrapper sleeps and retries after every exception
handle_scan_retrying_errors(retry, o) ==
    LET r == process_single_domain(o)
    IN IF r.exc = "none" \/ retry >= max_backoff_retries - 1
       THEN [done |-> TRUE, wait |-> 0, out |-> r]
       ELSE [done |-> FALSE, wait |-> Pow2(retry) * backoff_base, out |-> r]

\* one iteration of `for retry in range(max_backoff_retries)`: either the
\* wrapper sleeps and loops (done = FALSE) or it returns / raises (done = TRUE)
handle_scan_with_backoff(retry, o) ==
    LET r == process_single_domain(o)
    IN CASE r.exc = "none" -> [done |-> TRUE, wait |-> 0, out |-> r]
         [] r.exc = "RateLimitException" ->
              IF retry < max_backoff_retries - 1
              THEN [done |-> FALSE, wait |-> Pow2(retry) * backoff_base, out |-> r]
              ELSE [done |-> TRUE, wait |-> 0,
                    out |-> Raised("HTTPException", 429, RateLimitExceeded)]
         [] OTHER -> [done |-> TRUE, wait |-> 0, out |-> r]

NoResult == Raised("pending", 0, "")

\* variant: every round reads the scanner's cache
SubmitCached(domain, rnd) ==
    [domain |-> domain, status |-> "pending", collected |-> FALSE,
     use_cache |-> TRUE, attempt |-> rnd,
     timeout |-> initial_timeout + timeout_increment * (rnd - 1),
     retry |-> 0, invocations |-> 0, rate_signals |-> 0, waits |-> <<>>,
     out |-> NoResult]

\* variant: every round gets the budget of the first
SubmitSameBudget(domain, rnd) ==
    [domain |-> domain, status |-> "pending", collected |-> FALSE,
     use_cache |-> (rnd = 1), attempt |-> rnd,
     timeout |-> initial_timeout,
     retry |-> 0, invocations |-> 0, rate_signals |-> 0, waits |-> <<>>,
     out |-> NoResult]

\* executor.submit(handle_scan_with_backoff, domain, use_cache, round_num, current_timeout)
Submit(domain, rnd) ==
    [domain |-> domain, status |-> "pending", collected |-> FALSE,
     use_cache |-> (rnd = 1), attempt |-> rnd,
     timeout |-> initial_timeout + timeout_increment * (rnd - 1),
     retry |-> 0, invocations |-> 0, rate_signals |-> 0, waits |-> <<>>,
     out |-> NoResult]

\* the dict the successful pipeline returns (format_result_for_frontend)
ResultOf(f) == [url |-> f.domain, attempt |-> f.attempt, cached |-> f.use_cache]

Running == {i \in 1..Len(futures) : futures[i].status = "running"}

\* variant: the pool is sized by the request's max_concurrent
max_workers_requested(n, requested) == Min(requested, n)

\* ThreadPoolExecutor(max_workers=min(2, len(domains_to_scan))): the request's
\* max_concurrent is not read
max_workers(n, requested) == Min(pool_cap, n)

(* ---- events of the stream ---- *)
Ev(type, domain, rnd, status, completed) ==
    [type |-> type, domain |-> domain, round |-> rnd, status |-> status, completed |-> completed]

Emit(evs) == IF endpoint = "stream" THEN events \o evs ELSE events

(* ---- ScanRequest.validate_and_parse_domains ---- *)
\* The text of the domain field is a sequence of tokens; each token stands
\* for the substring it spells.
DomainNames == {"a.com", "A.com", "b.com"}

Tokens == DomainNames \cup {" ", "/", ",", "https://", "http://"}

Texts == UNION {[1..n -> Tokens] : n \in 0..MaxTokens}

\* str.split(sep): always at least one piece
RECURSIVE split(_, _)
split(s, sep) ==
    LET hit == {i \in 1..Len(s) : s[i] = sep}
    IN IF hit = {} THEN <<s>>
       ELSE LET k == CHOOSE i \in hit : \A j \in hit : i <= j
            IN <<SubSeq(s, 1, k - 1)>> \o split(SubSeq(s, k + 1, Len(s)), sep)

RECURSIVE lstrip(_, _)
lstrip(s, c) == IF s # <<>> /\ Head(s) = c THEN lstrip(Tail(s), c) ELSE s

RECURSIVE rstrip(_, _)
rstrip(s, c) ==
    IF s # <<>> /\ s[Len(s)] = c THEN rstrip(SubSeq(s, 1, Len(s) - 1), c) ELSE s

\* str.strip(): whitespace is removed at both ends only
strip(s) == rstrip(lstrip(s, " "), " ")

lower(s) == [i \in 1..Len(s) |-> IF s[i] = "A.com" THEN "a.com" ELSE s[i]]

\* str.replace(old, ""): every occurrence, wherever it stands
replace(s, old) == SelectSeq(s, LAMBDA t : t # old)

RECURSIVE join(_, _)
join(parts, sep) ==
    IF parts = <<>> THEN <<>>
    ELSE IF Len(parts) = 1 THEN parts[1]
    ELSE parts[1] \o <<sep>> \o join(Tail(parts), sep)

\* domain.lower(), .replace("https://", ""), .replace("http://", ""), .rstrip("/")
clean(d) == rstrip(replace(replace(lower(d), "https://"), "http://"), "/")

\* for domain in domains: if domain and domain not in cleaned: cleaned.append(domain)
RECURSIVE cleaned(_, _)
cleaned(ds, acc) ==
    IF ds = <<>> THEN acc
    ELSE LET d == clean(Head(ds))
         IN cleaned(Tail(ds), IF d # <<>> /\ d \notin Range(acc) THEN Append(acc, d) ELSE acc)

validate_and_parse_domains(v) ==
    LET parts == IF "," \in Range(v) THEN split(v, ",") ELSE <<v>>
        ds == [i \in 1..Len(parts) |-> strip(parts[i])]
        out == cleaned(ds, <<>>)
    IN IF out = <<>> THEN [ok |-> FALSE, value |-> v]
       ELSE [ok |-> TRUE, value |-> join(out, ",")]

\* domains = [d.strip() for d in request.domain.split(',')]
split_domains(text) ==
    LET parts == split(text, ",") IN [i \in 1..Len(parts) |-> strip(parts[i])]

\* the text a client sends for a list of domain names
TextOf(ds) == join([i \in 1..Len(ds) |-> <<ds[i]>>], ",")

(* ---- the scoring engine (src/scan-service/tls.py): text helpers ---- *)

\* str.upper() on the letters the tables and the scanner's names use
UpperMap ==
    ("a" :> "A") @@ ("b" :> "B") @@ ("c" :> "C") @@ ("d" :> "D") @@ ("e" :> "E") @@ ("f" :> "F") @@
    ("g" :> "G") @@ ("h" :> "H") @@ ("i" :> "I") @@ ("j" :> "J") @@ ("k" :> "K") @@ ("l" :> "L") @@
    ("m" :> "M") @@ ("n" :> "N") @@ ("o" :> "O") @@ ("p" :> "P") @@ ("q" :> "Q") @@ ("r" :> "R") @@
    ("s" :> "S") @@ ("t" :> "T") @@ ("u" :> "U") @@ ("v" :> "V") @@ ("w" :> "W") @@ ("x" :> "X") @@
    ("y" :> "Y") @@ ("z" :> "Z")

Char(s, i) == SubSeq(s, i, i)

upper_char(c) == IF c \in DOMAIN UpperMap THEN UpperMap[c] ELSE c

RECURSIVE upper(_)
upper(s) == IF Len(s) = 0 THEN "" ELSE upper_char(Char(s, 1)) \o upper(SubSeq(s, 2, Len(s)))

\* Python's `sub in s` on two strings
contains(s, sub) == \E i \in 0..(Len(s) - Len(sub)) : SubSeq(s, i + 1, i + Len(sub)) = sub

\* any(x in s for x in subs)
contains_any(s, subs) == \E x \in subs : contains(s, x)

Max(a, b) == IF a > b THEN a ELSE b

(* ---- PQCAnalyzer.__init__: the tables, in the order the dict keeps ---- *)

\* PQ_RESISTANCE_TABLE["kex"]
KexTable ==
    <<
        <<"RSA", 0>>, <<"DH", 0>>, <<"DH-RSA", 0>>, <<"DH-DSS", 0>>, <<"ANON-DH", 0>>,
        <<"DHE", 5>>, <<"ECDH", 5>>, <<"ECDHE", 10>>, <<"X25519", 15>>, <<"X448", 18>>,
        <<"CURVE25519", 15>>, <<"CURVE448", 18>>, <<"secp224r1", 3>>, <<"secp256r1", 5>>,
        <<"secp256k1", 4>>, <<"secp384r1", 8>>, <<"secp521r1", 10>>, <<"PRIME256V1", 5>>,
        <<"brainpoolP256r1", 6>>, <<"brainpoolP384r1", 9>>, <<"brainpoolP512r1", 11>>,
        <<"ffdhe2048", 7>>, <<"ffdhe3072", 9>>, <<"ffdhe4096", 11>>, <<"ffdhe6144", 13>>,
        <<"ffdhe8192", 15>>, <<"KYBER", 95>>, <<"KYBER512", 90>>, <<"KYBER768", 95>>,
        <<"KYBER1024", 98>>, <<"CRYSTALS-KYBER", 95>>, <<"ML-KEM", 95>>,
        <<"ML-KEM-512", 90>>, <<"ML-KEM-768", 95>>, <<"ML-KEM-1024", 98>>, <<"BIKE", 85>>,
        <<"BIKE-L1", 83>>, <<"BIKE-L3", 87>>, <<"BIKE-L5", 89>>, <<"SIKE", 0>>,
        <<"NTRU", 85>>, <<"NTRUPRIME", 87>>, <<"SNTRUP", 86>>, <<"SNTRUP761", 86>>,
        <<"SNTRUP857", 87>>, <<"SNTRUP1277", 89>>, <<"SABER", 88>>, <<"LIGHTSABER", 85>>,
        <<"FIRESABER", 90>>, <<"FRODO", 92>>, <<"FRODOKEM", 92>>, <<"FRODOKEM-640", 90>>,
        <<"FRODOKEM-976", 92>>, <<"FRODOKEM-1344", 94>>, <<"HQC", 88>>,
        <<"CLASSIC-MCELIECE", 93>>, <<"MCELIECE", 93>>, <<"NEWHOPE", 87>>,
        <<"NEWHOPE512", 85>>, <<"NEWHOPE1024", 89>>, <<"NTRU-HRSS", 87>>,
        <<"NTRU-HPS", 88>>, <<"X25519-KYBER768", 96>>, <<"X25519-KYBER512", 93>>,
        <<"X448-KYBER768", 97>>, <<"X448-KYBER1024", 97>>, <<"P256-KYBER512", 92>>,
        <<"P384-KYBER768", 95>>, <<"ECDHE-KYBER", 94>>, <<"ECDHE-NTRU", 90>>, <<"PSK", 40>>,
        <<"DHE-PSK", 45>>, <<"ECDHE-PSK", 50>>, <<"RSA-PSK", 35>>
    >>

\* PQ_RESISTANCE_TABLE["signature"]
SignatureTable ==
    <<
        <<"RSA", 0>>, <<"DSA", 0>>, <<"DSS", 0>>, <<"ECDSA", 5>>, <<"DSA-1024", 0>>,
        <<"DSA-2048", 3>>, <<"DSA-3072", 5>>, <<"RSA-PSS", 8>>, <<"RSASSA-PSS", 8>>,
        <<"EdDSA", 60>>, <<"Ed25519", 65>>, <<"Ed448", 70>>, <<"DILITHIUM", 95>>,
        <<"DILITHIUM2", 92>>, <<"DILITHIUM3", 95>>, <<"DILITHIUM5", 98>>, <<"ML-DSA", 95>>,
        <<"ML-DSA-44", 92>>, <<"ML-DSA-65", 95>>, <<"ML-DSA-87", 98>>, <<"FALCON", 94>>,
        <<"FALCON512", 92>>, <<"FALCON1024", 96>>, <<"SPHINCS", 96>>, <<"SPHINCS+", 97>>,
        <<"SPHINCS+-128F", 95>>, <<"SPHINCS+-192F", 96>>, <<"SPHINCS+-256F", 97>>,
        <<"SPHINCS+-128S", 96>>, <<"SPHINCS+-192S", 97>>, <<"SPHINCS+-256S", 98>>,
        <<"SLH-DSA", 97>>, <<"XMSS", 91>>, <<"LMS", 90>>, <<"HSS-LMS", 91>>,
        <<"RAINBOW", 0>>, <<"PICNIC", 88>>, <<"PICNIC3", 89>>, <<"PICNIC-L1", 87>>,
        <<"PICNIC-L3", 89>>, <<"PICNIC-L5", 91>>, <<"MAYO", 89>>, <<"UOV", 84>>,
        <<"GeMSS", 86>>, <<"LUOV", 84>>, <<"SM2", 55>>, <<"GOST-SIGNATURE", 58>>,
        <<"GOST-2012", 60>>, <<"RSA-DILITHIUM", 85>>, <<"RSA+DILITHIUM", 85>>,
        <<"ECDSA-DILITHIUM", 88>>, <<"ECDSA+DILITHIUM", 88>>, <<"ECDSA-FALCON", 87>>,
        <<"ECDSA+FALCON", 87>>, <<"RSA-SPHINCS+", 86>>, <<"RSA-FALCON", 86>>,
        <<"Ed25519-DILITHIUM", 90>>, <<"Ed448-DILITHIUM3", 91>>, <<"Ed448-FALCON1024", 92>>
    >>

\* PQ_RESISTANCE_TABLE["symmetric"]
SymmetricTable ==
    <<
        <<"AES-128", 70>>, <<"AES-192", 80>>, <<"AES-256", 85>>, <<"AES-128-GCM", 75>>,
        <<"AES-192-GCM", 82>>, <<"AES-256-GCM", 90>>, <<"AES-128-CCM", 72>>,
        <<"AES-256-CCM", 88>>, <<"AES-128-OCB", 73>>, <<"AES-256-OCB", 89>>,
        <<"AES-GCM-SIV", 89>>, <<"AES-SIV", 87>>, <<"AES-EAX", 86>>, <<"AEGIS-128", 79>>,
        <<"AEGIS-256", 84>>, <<"ChaCha20", 82>>, <<"ChaCha20-Poly1305", 88>>,
        <<"XChaCha20", 83>>, <<"XChaCha20-Poly1305", 88>>, <<"Salsa20", 75>>,
        <<"XSalsa20", 76>>, <<"Camellia-128", 60>>, <<"Camellia-192", 70>>,
        <<"Camellia-256", 80>>, <<"ARIA-128", 62>>, <<"ARIA-192", 72>>, <<"ARIA-256", 82>>,
        <<"Twofish", 70>>, <<"Twofish-256", 78>>, <<"Serpent", 75>>, <<"Serpent-256", 82>>,
        <<"ASCON-128", 80>>, <<"ASCON-128A", 82>>, <<"GIFT-128", 75>>, <<"SPARKLE", 76>>,
        <<"GRAIN-128AEAD", 74>>, <<"TINYJAMBU", 73>>, <<"DEOXYS-II", 77>>, <<"3DES", 20>>,
        <<"DES", 0>>, <<"RC4", 0>>, <<"RC2", 0>>, <<"Blowfish", 30>>, <<"IDEA", 25>>,
        <<"CAST5", 28>>
    >>

\* PQ_RESISTANCE_TABLE["hash"]
HashTable ==
    <<
        <<"MD5", 0>>, <<"MD4", 0>>, <<"MD2", 0>>, <<"SHA1", 10>>, <<"SHA-1", 10>>,
        <<"RIPEMD-160", 35>>, <<"SHA224", 50>>, <<"SHA-224", 50>>, <<"SHA256", 70>>,
        <<"SHA-256", 70>>, <<"SHA384", 80>>, <<"SHA-384", 80>>, <<"SHA512", 85>>,
        <<"SHA-512", 85>>, <<"SHA512/224", 78>>, <<"SHA512/256", 80>>, <<"SHA3-224", 70>>,
        <<"SHA3-256", 72>>, <<"SHA3-384", 82>>, <<"SHA3-512", 88>>, <<"SHAKE128", 73>>,
        <<"SHAKE256", 86>>, <<"Keccak", 72>>, <<"Keccak-256", 72>>, <<"BLAKE2b", 80>>,
        <<"BLAKE2s", 78>>, <<"BLAKE3", 85>>, <<"BLAKE2b-256", 80>>, <<"BLAKE2b-512", 83>>,
        <<"BLAKE2BP", 82>>, <<"BLAKE2SP", 81>>, <<"ASCON-HASH", 78>>, <<"ASCON-HASHA", 79>>,
        <<"Whirlpool", 72>>, <<"SM3", 68>>, <<"GOST", 60>>, <<"STREEBOG-256", 65>>,
        <<"STREEBOG-512", 70>>, <<"LSH-256", 68>>, <<"LSH-512", 73>>, <<"GOST-HASH", 62>>
    >>

\* self.PQ_RESISTANCE_TABLE.get(algo_type, {})
PQ_RESISTANCE_TABLE(algo_type) ==
    CASE algo_type = "kex" -> KexTable
      [] algo_type = "signature" -> SignatureTable
      [] algo_type = "symmetric" -> SymmetricTable
      [] algo_type = "hash" -> HashTable
      [] OTHER -> <<>>

\* self.PROTOCOL_SCORES
PROTOCOL_SCORES ==
    <<
        <<"SSL 2.0", 0>>, <<"SSL 3.0", 0>>, <<"TLS 1.0", 20>>, <<"TLS 1.1", 40>>,
        <<"TLS 1.2", 75>>, <<"TLS 1.3", 90>>, <<"DTLS 1.0", 30>>, <<"DTLS 1.2", 75>>,
        <<"DTLS 1.3", 90>>, <<"QUIC", 85>>
    >>

\* self.WEIGHTS, in hundredths; .get(comp_type, 0)
WEIGHTS(comp_type) ==
    CASE comp_type = "kex" -> 35
      [] comp_type = "signature" -> 30
      [] comp_type = "symmetric" -> 15
      [] comp_type = "certificate" -> 10
      [] comp_type = "protocol" -> 10
      [] OTHER -> 0

\* self.PQC_ALGORITHMS
PQC_ALGORITHMS ==
    {"BIKE", "CLASSIC-MCELIECE", "CRYSTALS", "DILITHIUM", "FALCON", "FIRESABER", "FRODO",
     "FRODOKEM", "GeMSS", "HQC", "KYBER", "LIGHTSABER", "LMS", "LUOV", "MCELIECE",
     "ML-DSA", "ML-KEM", "NEWHOPE", "NTRU", "NTRUPRIME", "PICNIC", "RAINBOW", "SABER",
     "SIKE", "SLH-DSA", "SNTRUP", "SPHINCS", "XMSS"}

\* self.DEPRECATED_ALGORITHMS
DEPRECATED_ALGORITHMS ==
    {"3DES", "ANON-DH", "DES", "DSA", "DSA-1024", "DSS", "IDEA", "MD2", "MD4", "MD5",
     "RAINBOW", "RC2", "RC4", "SHA-1", "SHA1", "SIKE", "SSL 2.0", "SSL 3.0", "TLS 1.0",
     "TLS 1.1"}

(* ---- the scoring engine: one algorithm ---- *)
\* the two-decimal results are kept in hundredths: round(n / d, 2) * 100
round2(n, d) == 100 * (n \div d) + (200 * (n % d) + d) \div (2 * d)

\* round(n / d, 2) * 100 where n / d lies exactly between two hundredths: the
\* binary value the float arithmetic produced is just above or just below
\* the middle, and the result follows it
round2_tie(n, d, tie) ==
    IF (200 * (n % d)) % (2 * d) = d /\ tie = "down" THEN round2(n, d) - 1 ELSE round2(n, d)

TieOutcomes == {"up", "down"}

score_to_grade(score) ==
    IF score >= 95 THEN "A+"
    ELSE IF score >= 90 THEN "A"
    ELSE IF score >= 85 THEN "A-"
    ELSE IF score >= 80 THEN "B+"
    ELSE IF score >= 75 THEN "B"
    ELSE IF score >= 70 THEN "B-"
    ELSE IF score >= 65 THEN "C+"
    ELSE IF score >= 60 THEN "C"
    ELSE IF score >= 50 THEN "D"
    ELSE "F"

get_security_level(score) ==
    IF score >= 90 THEN "high"
    ELSE IF score >= 70 THEN "medium"
    ELSE IF score >= 50 THEN "low"
    ELSE "critical"

\* a separator and a classical token, whatever the other half is
is_hybrid_without_pqc(algorithm) ==
    LET algo_upper == upper(algorithm)
    IN /\ contains_any(algo_upper, {"+", "-", "HYBRID"})
       /\ contains_any(algo_upper, {"RSA", "ECDSA", "ECDHE", "X25519", "X448",
                                    "ED25519", "P256", "P384"})

is_hybrid_algorithm(algorithm) ==
    LET algo_upper == upper(algorithm)
    IN IF contains_any(algo_upper, {"+", "-", "HYBRID"})
       THEN /\ contains_any(algo_upper, {"RSA", "ECDSA", "ECDHE", "X25519", "X448",
                                         "ED25519", "P256", "P384"})
            /\ contains_any(algo_upper, PQC_ALGORITHMS)
       ELSE FALSE

\* Every family is a list of `if`s without a final else: a key size that no
\* branch of the family names falls through to the next family.
calculate_key_size_score(algorithm, key_size, algo_type) ==
    IF key_size = 0 THEN 0
    ELSE
      LET algo_upper == upper(algorithm)
          rsa == IF ~contains_any(algo_upper, {"RSA", "DSA"}) THEN <<>>
                 ELSE IF key_size < 1024 THEN <<-40>>
                 ELSE IF key_size < 2048 THEN <<-30>>
                 ELSE IF key_size = 2048 THEN <<5>>
                 ELSE IF key_size = 3072 THEN <<10>>
                 ELSE IF key_size >= 4096 THEN <<15>>
                 ELSE <<>>
          ec == IF ~contains_any(algo_upper, {"ECDSA", "ECDH", "EC", "ED25519", "ED448"}) THEN <<>>
                ELSE IF key_size < 224 THEN <<-25>>
                ELSE IF key_size < 256 THEN <<-15>>
                ELSE IF key_size = 256 THEN <<5>>
                ELSE IF key_size = 384 THEN <<10>>
                ELSE IF key_size >= 521 THEN <<15>>
                ELSE <<>>
          aes == IF ~contains(algo_upper, "AES") THEN <<>>
                 ELSE IF key_size = 128 THEN <<0>>
                 ELSE IF key_size = 192 THEN <<10>>
                 ELSE IF key_size = 256 THEN <<20>>
                 ELSE <<>>
          chacha == IF contains(algo_upper, "CHACHA") /\ key_size = 256 THEN <<15>> ELSE <<>>
          pqc == IF ~contains_any(algo_upper, PQC_ALGORITHMS) THEN <<>>
                 ELSE IF key_size >= 3000 THEN <<8>>
                 ELSE IF key_size >= 1500 THEN <<5>>
                 ELSE IF key_size >= 800 THEN <<3>>
                 ELSE <<>>
      IN Head(rsa \o ec \o aes \o chacha \o pqc \o <<0>>)

calculate_curve_strength_score(curve, curve_bits) ==
    IF curve = "" THEN 0
    ELSE
      LET curve_upper == upper(curve)
          named == IF contains(curve_upper, "X25519") \/ contains(curve_upper, "CURVE25519") THEN <<15>>
                   ELSE IF contains(curve_upper, "X448") \/ contains(curve_upper, "CURVE448") THEN <<20>>
                   ELSE IF contains(curve_upper, "SECP256R1") \/ contains(curve_upper, "PRIME256V1") THEN <<5>>
                   ELSE IF contains(curve_upper, "SECP256K1") THEN <<4>>
                   ELSE IF contains(curve_upper, "SECP384R1") THEN <<10>>
                   ELSE IF contains(curve_upper, "SECP521R1") THEN <<12>>
                   ELSE IF contains(curve_upper, "BRAINPOOL")
                        THEN IF contains(curve_upper, "512") THEN <<11>>
                             ELSE IF contains(curve_upper, "384") THEN <<9>>
                             ELSE IF contains(curve_upper, "256") THEN <<6>>
                             ELSE <<>>
                   ELSE <<>>
          sized == IF curve_bits = 0 THEN <<>>
                   ELSE IF curve_bits >= 512 THEN <<12>>
                   ELSE IF curve_bits >= 384 THEN <<10>>
                   ELSE IF curve_bits >= 256 THEN <<5>>
                   ELSE IF curve_bits >= 224 THEN <<3>>
                   ELSE <<>>
      IN Head(named \o sized \o <<0>>)

\* type_table.get(algorithm), then the first key, in table order, that
\* contains the name or is contained in it (upper case), then 0
base_score(algorithm, algo_type) ==
    LET type_table == PQ_RESISTANCE_TABLE(algo_type)
        exact == {i \in 1..Len(type_table) : type_table[i][1] = algorithm}
        algo_upper == upper(algorithm)
        loose == {i \in 1..Len(type_table) :
                     \/ contains(algo_upper, upper(type_table[i][1]))
                     \/ contains(upper(type_table[i][1]), algo_upper)}
    IN IF exact # {} THEN type_table[CHOOSE i \in exact : TRUE][2]
       ELSE IF loose # {} THEN type_table[CHOOSE i \in loose : \A j \in loose : i <= j][2]
       ELSE 0

\* max(0, min(100, final_score)), without the upper limit
clamp_from_below(score) == Max(0, score)

\* max(0, min(100, final_score))
clamp(score) == Max(0, Min(100, score))

\* a decay that ignores the position
position_decay_flat(position) == [num |-> 1, den |-> 1]

\* 1.0 / (1 + 0.05 * position) if position >= 0 else 1.0, as the fraction 20 / (20 + position)
position_decay(position) ==
    IF position >= 0 THEN [num |-> 20, den |-> 20 + position] ELSE [num |-> 1, den |-> 1]

\* The AlgorithmScore returned; key_size, curve and curve_bits arrive as 0,
\* "" and 0 when the caller passes None (`key_size or 0`, `curve or ""`).
\* weighted_score is in hundredths, every other score is a whole number.
score_individual_algorithm(algorithm, algo_type, key_size, curve, curve_bits, position) ==
    LET base == base_score(algorithm, algo_type)
        key_size_score == calculate_key_size_score(algorithm, key_size, algo_type)
        curve_strength == calculate_curve_strength_score(curve, curve_bits)
        final_score == clamp(base + key_size_score + curve_strength)
        decay == position_decay(position)
        is_pqc == contains_any(upper(algorithm), PQC_ALGORITHMS)
        is_hybrid == is_hybrid_algorithm(algorithm)
    IN [algorithm |-> algorithm,
        algorithm_type |-> algo_type,
        base_score |-> base,
        key_size |-> key_size,
        key_size_score |-> key_size_score,
        curve_strength |-> curve_strength,
        final_score |-> final_score,
        grade |-> score_to_grade(final_score),
        is_pqc |-> is_pqc,
        is_hybrid |-> is_hybrid,
        position |-> position,
        weighted_score |-> round2(final_score * decay.num, decay.den),
        security_level |-> get_security_level(final_score),
        quantum_safe |-> is_pqc \/ (is_hybrid /\ final_score >= 85),
        deprecated |-> contains_any(upper(algorithm), DEPRECATED_ALGORITHMS)]

\* no analyzer call is in progress
NoCall == [method |-> "none"]

(* ---- initial state ---- *)
\* requests whose entries name distinct domains
ListsUpTo(n) == {[i \in 1..k |-> NamePool[i]] : k \in 1..n}

RequestLists == ListsUpTo(MaxDomains)

\* The validator dedups the cleaned strings; the handlers split its result
\* again and strip every entry, so two entries that differ only in exposed
\* whitespace ("a.com /" and "a.com") arrive as the same domain twice.
RequestListsDup == RequestLists \cup {<<NamePool[1], NamePool[1]>>}

InitScan(lists, profiles, concurrencies, databases) ==
    /\ faults \in profiles
    /\ max_concurrent \in concurrencies
    /\ confirmed_offline = {}
    /\ cancel_requested_at = [round |-> 0, pc |-> "never"]
    /\ endpoint \in {"scan", "stream"}
    /\ domains \in lists
    /\ request = [raw |-> TextOf(domains), domain |-> TextOf(domains), save_to_db |-> TRUE,
                  status |-> "parsed", domains |-> split_domains(TextOf(domains))]
    /\ db \in databases
    /\ pc = IF endpoint = "scan" /\ Len(domains) = 1 THEN "single" ELSE "precheck"
    /\ round_num = 1
    /\ domains_to_scan = domains
    /\ retry_state = [NewRetryState EXCEPT !.total_rounds = max_retries]
    /\ futures = <<>>
    /\ scan_cancellations = {}
    /\ events = <<>>
    /\ dispatch_log = {}
    /\ response = [type |-> "none"]
    /\ analyzer = NoCall

\* the database service did not answer the health check at start-up
NoDatabase == [NewDatabase EXCEPT !.enabled = FALSE]

InitWith(lists, profiles, concurrencies) == InitScan(lists, profiles, concurrencies, {NoDatabase})

\* one kind of fault per request
FaultProfiles == {{k} : k \in FaultKinds}

Init == InitWith(RequestLists, FaultProfiles, {default_max_concurrent})

\* requests that may name a domain twice
InitDup == InitWith(RequestListsDup, FaultProfiles, {default_max_concurrent})

\* requests served while the database service is up at start-up; the calls
\* of one kind may then succeed or fail, each on its own
InitDb ==
    InitScan(ListsUpTo(DbDomains),
             {{[dns_ok |-> FALSE, tool |-> "none"]}, {[dns_ok |-> TRUE, tool |-> "failed"]}},
             {default_max_concurrent}, {[NewDatabase EXCEPT !.flaky = {k}] : k \in DbCallKinds})

\* longer requests, any max_concurrent, against a tool that never fails
InitHealthy == InitWith(ListsUpTo(PoolDomains), {{}}, {1, default_max_concurrent})

(* ---- precheck ---- *)
\* /scan-with-progress: for domain in domains.copy(): add_failure + remove
RECURSIVE StreamPrecheck(_, _, _, _)
StreamPrecheck(i, offline, rs, todo) ==
    IF i > Len(domains) THEN [rs |-> rs, todo |-> todo, evs |-> <<>>]
    ELSE IF i \in offline
         THEN LET rest == StreamPrecheck(i + 1, offline,
                              add_failure(rs, domains[i], DnsError, 0, <<0, i>>),
                              RemoveFirst(todo, domains[i]))
              IN [rest EXCEPT !.evs = <<Ev("domain_offline", domains[i], 0, "offline", 0)>> \o @]
         ELSE StreamPrecheck(i + 1, offline, rs, todo)

\* /scan: retry_state.failed_domains[d] = offline_domain (the whole record is assigned)
set_failure(rs, rec) ==
    LET fd == rs.failed_domains
        hit == {i \in 1..Len(fd) : fd[i].domain = rec.domain}
    IN IF hit = {} THEN [rs EXCEPT !.failed_domains = Append(fd, rec)]
       ELSE [rs EXCEPT !.failed_domains[CHOOSE i \in hit : TRUE] = rec]

RECURSIVE ScanPrecheck(_, _, _, _)
ScanPrecheck(i, offline, rs, online) ==
    IF i > Len(domains) THEN [rs |-> rs, todo |-> online, evs |-> <<>>]
    ELSE IF i \in offline
         THEN ScanPrecheck(i + 1, offline,
                  set_failure(rs, [domain |-> domains[i], error |-> DnsError,
                                   last_attempt |-> 0, first_failed_at |-> <<0, i>>]),
                  online)
         ELSE ScanPrecheck(i + 1, offline, rs, Append(online, domains[i]))

\* quick_domain_check of every requested entry; `offline` are the positions
\* whose DNS lookup fails
\* the persistence calls of the handler: only /scan-with-progress makes any,
\* and only when the request asks for it
Persisting == endpoint = "stream" /\ request.save_to_db

\* outcomes to explore for one persistence call
DbChoices(kind) == IF Persisting /\ db.enabled /\ kind \in db.flaky THEN DbOutcomes ELSE {"ok"}

\* save_failed_scan for every offline entry, in list order; `lost` are the
\* positions whose call fails
RECURSIVE SaveOffline(_, _, _, _)
SaveOffline(d, i, offline, lost) ==
    IF i > Len(domains) THEN d
    ELSE IF i \in offline
         THEN SaveOffline(save_failed_scan(d, domains[i], IF i \in lost THEN "error" ELSE "ok"),
                          i + 1, offline, lost)
         ELSE SaveOffline(d, i + 1, offline, lost)

Precheck ==
    /\ pc = "precheck"
    /\ \E offline \in SUBSET (1..Len(domains)), batch \in DbChoices("create_scan_batch") :
       \E lost \in (IF "error" \in DbChoices("save_failed_scan") THEN SUBSET offline ELSE {{}}) :
          LET p == IF endpoint = "stream"
                   THEN StreamPrecheck(1, offline, retry_state, domains)
                   ELSE ScanPrecheck(1, offline, retry_state, <<>>)
              raised == DbRaised(db, batch) \/ (lost # {} /\ DbRaised(db, "error"))
          IN /\ retry_state' = p.rs
             /\ domains_to_scan' = p.todo
             /\ events' = IF raised THEN events
                          ELSE Emit(<<Ev("start", "-", 0, "-", 0)>> \o p.evs)
             /\ confirmed_offline' = {domains[i] : i \in offline}
             /\ db' = IF Persisting
                      THEN SaveOffline(create_scan_batch(db, batch), 1, offline, lost)
                      ELSE db
             /\ pc' = IF raised THEN "crashed" ELSE "round_start"
    /\ UNCHANGED <<analyzer, request, faults, max_concurrent, endpoint, domains, round_num, futures, scan_cancellations,
                   dispatch_log, response, cancel_requested_at>>

(* ---- start of a round ---- *)
\* work of an earlier executor whose threads are still alive
Unfinished(futs) == SelectSeq(futs, LAMBDA f : f.status \in {"pending", "running"})

ProcessingEvents(ds, rnd) ==
    [i \in 1..Len(ds) |-> Ev("domain_processing", ds[i], rnd, "processing", 0)]

RoundStart ==
    /\ pc = "round_start"
    /\ IF endpoint = "stream" /\ is_scan_cancelled(scan_cancellations, RequestId)
       THEN \* cancelled before the round: mark the round's input, leave the loop
            /\ retry_state' = AddFailures(retry_state, domains_to_scan,
                                          CancelledError, round_num, <<round_num, 0>>)
            /\ events' = Emit(<<Ev("cancelled", "-", round_num, "-", 0)>>)
            /\ pc' = "final"
            /\ UNCHANGED <<futures, dispatch_log>>
       ELSE IF endpoint = "scan" /\ domains_to_scan = <<>>
       THEN \* /scan only: `if not domains_to_scan: break`
            /\ pc' = "final"
            /\ UNCHANGED <<retry_state, events, futures, dispatch_log>>
       ELSE IF domains_to_scan = <<>>
       THEN \* ThreadPoolExecutor(max_workers=0) raises ValueError out of the generator
            /\ retry_state' = [retry_state EXCEPT !.current_round = round_num]
            /\ events' = Emit(<<Ev("round_start", "-", round_num, "-", 0)>>)
            /\ pc' = "crashed"
            /\ UNCHANGED <<futures, dispatch_log>>
       ELSE /\ retry_state' = [retry_state EXCEPT !.current_round = round_num]
            /\ futures' = Unfinished(futures)
                             \o [i \in 1..Len(domains_to_scan) |-> Submit(domains_to_scan[i], round_num)]
            /\ dispatch_log' = dispatch_log \cup
                                 {<<round_num, domains_to_scan[i]>> : i \in 1..Len(domains_to_scan)}
            /\ events' = Emit(<<Ev("round_start", "-", round_num, "-", 0)>>
                              \o ProcessingEvents(domains_to_scan, round_num))
            /\ pc' = "collect"
    /\ UNCHANGED <<analyzer, db, request, faults, max_concurrent, endpoint, domains, round_num, domains_to_scan, scan_cancellations, response,
                   confirmed_offline, cancel_requested_at>>

(* ---- the pool's worker threads ---- *)
\* a free worker thread takes the next queued work item
WorkerStart(i) ==
    /\ pc = "collect"
    /\ i \in 1..Len(futures)
    /\ futures[i].status = "pending"
    /\ \A j \in 1..(i - 1) : futures[j].status # "pending"
    /\ Cardinality(Running) < max_workers(Len(domains_to_scan), max_concurrent)
    /\ futures' = [futures EXCEPT ![i].status = "running"]
    /\ UNCHANGED <<analyzer, db, request, faults, max_concurrent, endpoint, domains, pc, round_num, domains_to_scan, retry_state,
                   scan_cancellations, events, dispatch_log, response,
                   confirmed_offline, cancel_requested_at>>

\* one pass of the wrapper's loop in a worker thread
WorkerRun(i) ==
    /\ pc \in {"collect", "drain"}
    /\ i \in 1..Len(futures)
    /\ futures[i].status = "running"
    /\ \E o \in InvocationOutcomes :
          LET f == futures[i]
              step == handle_scan_with_backoff(f.retry, o)
              seen == [f EXCEPT !.invocations = @ + 1,
                                !.rate_signals = IF o.tool = "rate_limited" THEN @ + 1 ELSE @]
          IN futures' = [futures EXCEPT ![i] =
                 IF step.done
                 THEN [seen EXCEPT !.status = "done", !.out = step.out]
                 ELSE [seen EXCEPT !.retry = @ + 1, !.waits = Append(@, step.wait)]]
    /\ UNCHANGED <<analyzer, db, request, faults, max_concurrent, endpoint, domains, pc, round_num, domains_to_scan, retry_state,
                   scan_cancellations, events, dispatch_log, response,
                   confirmed_offline, cancel_requested_at>>

(* ---- result collection (the as_completed loop) ---- *)
\* executor.shutdown(wait=False, cancel_futures=True): queued items are dropped
CancelQueued(futs) ==
    [i \in 1..Len(futs) |-> IF futs[i].status = "pending"
                            THEN [futs[i] EXCEPT !.status = "cancelled"] ELSE futs[i]]

DomainComplete(f, status, completed) == Ev("domain_complete", f.domain, f.attempt, status, completed)

\* the control flow applies one finished future to RetryState
Apply(rs, f, now) ==
    IF f.out.exc = "none"
    THEN remove_success(add_success(rs, ResultOf(f)), f.domain)
    ELSE add_failure(rs, f.domain, f.out.detail, round_num, now)

Collect(i) ==
    /\ pc = "collect"
    /\ i \in 1..Len(futures)
    /\ futures[i].status = "done"
    /\ ~futures[i].collected
    /\ IF endpoint = "stream" /\ is_scan_cancelled(scan_cancellations, RequestId)
       THEN \* the yielded future is dropped unprocessed and the loop is left
            /\ futures' = CancelQueued(futures)
            /\ pc' = "drain"
            /\ UNCHANGED <<retry_state, events, db>>
       ELSE \E saved \in DbChoices(IF futures[i].out.exc = "none"
                                     THEN "save_scan_result" ELSE "save_failed_scan") :
            LET counted == IF endpoint = "stream"
                           THEN [retry_state EXCEPT !.total_processed = @ + 1]
                           ELSE retry_state
                rs == Apply(counted, futures[i], <<round_num, i>>)
                ok == futures[i].out.exc = "none"
                raised == DbRaised(db, saved)
            IN /\ retry_state' = rs
               /\ futures' = [futures EXCEPT ![i].collected = TRUE]
               /\ db' = IF ~Persisting THEN db
                        ELSE IF ok THEN save_scan_result(db, futures[i].domain, saved)
                        ELSE save_failed_scan(db, futures[i].domain, saved)
               /\ events' = IF raised THEN events
                            ELSE Emit(<<DomainComplete(futures[i],
                                           IF ok THEN "completed" ELSE "failed",
                                           rs.total_processed)>>)
               /\ pc' = IF raised THEN "crashed" ELSE "collect"
    /\ UNCHANGED <<analyzer, request, faults, max_concurrent, endpoint, domains, round_num, domains_to_scan, scan_cancellations,
                   dispatch_log, response,
                   confirmed_offline, cancel_requested_at>>

\* as_completed has yielded every future of the round
AllCollected == \A i \in 1..Len(futures) : futures[i].collected

\* variant: the executor is left without joining its threads
PoolNotJoined == TRUE

\* leaving the `with ThreadPoolExecutor` block: shutdown(wait=True) joins the threads
PoolJoined == Running = {}

(* ---- end of a round ---- *)
\* variant: the round loop stops one round early
HasNextRoundShort(r) == r < max_retries - 1

\* for round_num in range(1, max_retries + 1) / if round_num < max_retries
HasNextRound(r) == r < max_retries

RoundComplete ==
    /\ \/ pc = "collect" /\ AllCollected
       \/ pc = "drain"
    /\ PoolJoined
    /\ UNCHANGED futures
    /\ LET next == get_failed_domains(retry_state)
           done == Ev("round_complete", "-", round_num, "-", 0)
       IN /\ domains_to_scan' = next
          /\ IF next = <<>>
             THEN /\ pc' = "final"
                  /\ events' = Emit(<<done>>)
                  /\ UNCHANGED round_num
             ELSE IF HasNextRound(round_num)
             THEN /\ pc' = "round_start"
                  /\ events' = Emit(<<done, Ev("retry_wait", "-", round_num, "-", 0)>>)
                  /\ round_num' = round_num + 1
             ELSE /\ pc' = "final"
                  /\ events' = Emit(<<done>>)
                  /\ UNCHANGED round_num
    /\ UNCHANGED <<analyzer, db, request, faults, max_concurrent, endpoint, domains, retry_state, scan_cancellations, dispatch_log, response,
                   confirmed_offline, cancel_requested_at>>

(* ---- final summary ---- *)
Summary(rs) ==
    [type |-> IF endpoint = "stream" THEN "complete" ELSE "final_response",
     rounds_completed |-> rs.current_round,
     total |-> Len(domains),
     successful |-> Len(rs.successful_domains),
     failed |-> Len(rs.failed_domains),
     successful_domains |-> [i \in 1..Len(rs.successful_domains) |-> rs.successful_domains[i].url],
     failed_domains |-> FailedKeys(rs)]

Finalize ==
    /\ pc = "final"
    /\ scan_cancellations' = IF endpoint = "stream"
                             THEN clear_cancellation(scan_cancellations, RequestId)
                             ELSE scan_cancellations
    /\ \E updated \in DbChoices("update_batch_status") :
          LET raised == DbRaised(db, updated)
          IN /\ db' = IF Persisting THEN update_batch_status(db, "completed", updated) ELSE db
             /\ response' = IF raised THEN response ELSE Summary(retry_state)
             /\ events' = IF raised THEN events
                          ELSE Emit(<<Ev("complete", "-", retry_state.current_round, "-",
                                         retry_state.total_processed)>>)
             /\ pc' = IF raised THEN "crashed" ELSE "done"
    /\ UNCHANGED <<analyzer, request, faults, max_concurrent, endpoint, domains, round_num, domains_to_scan, retry_state, futures,
                   dispatch_log,
                   confirmed_offline, cancel_requested_at>>

(* ---- POST /scan with one domain ---- *)
SingleScan ==
    /\ pc = "single"
    /\ \E o \in InvocationOutcomes :
          response' = [type |-> "single", out |-> process_single_domain(o)]
    /\ pc' = "done"
    /\ UNCHANGED <<analyzer, db, request, faults, max_concurrent, endpoint, domains, round_num, domains_to_scan, retry_state, futures,
                   scan_cancellations, events, dispatch_log,
                   confirmed_offline, cancel_requested_at>>

(* ---- POST /cancel-scan/{request_id} ---- *)
cancel_scan ==
    /\ endpoint = "stream"
    /\ ~is_scan_cancelled(scan_cancellations, RequestId)
    /\ scan_cancellations' = mark_scan_cancelled(scan_cancellations, RequestId)
    /\ cancel_requested_at' = IF cancel_requested_at.pc = "never"
                              THEN [round |-> round_num, pc |-> pc] ELSE cancel_requested_at
    /\ UNCHANGED <<analyzer, db, request, faults, max_concurrent, endpoint, domains, pc, round_num, domains_to_scan, retry_state, futures,
                   events, dispatch_log, response, confirmed_offline>>

Next ==
    \/ Precheck
    \/ RoundStart
    \/ \E i \in DOMAIN futures : WorkerStart(i)
    \/ \E i \in DOMAIN futures : WorkerRun(i)
    \/ \E i \in DOMAIN futures : Collect(i)
    \/ RoundComplete
    \/ Finalize
    \/ SingleScan
    \/ cancel_scan

Spec == Init /\ [][Next]_vars

SpecDup == InitDup /\ [][Next]_vars

SpecHealthy == InitHealthy /\ [][Next]_vars

SpecDb == InitDb /\ [][Next]_vars

(* ---- a request arrives: validation, then the handler's parse ---- *)
InitValidate ==
    /\ request \in {[raw |-> t, domain |-> t, save_to_db |-> TRUE,
                      status |-> "received", domains |-> <<>>] : t \in Texts}
    /\ db = NoDatabase
    /\ faults = {}
    /\ max_concurrent = default_max_concurrent
    /\ confirmed_offline = {}
    /\ cancel_requested_at = [round |-> 0, pc |-> "never"]
    /\ endpoint \in {"scan", "stream"}
    /\ domains = <<>>
    /\ pc = "request"
    /\ round_num = 1
    /\ domains_to_scan = <<>>
    /\ retry_state = NewRetryState
    /\ futures = <<>>
    /\ scan_cancellations = {}
    /\ events = <<>>
    /\ dispatch_log = {}
    /\ response = [type |-> "none"]
    /\ analyzer = NoCall

\* pydantic runs the validator: the field takes the returned text, or the
\* request is refused with the ValueError
ValidateRequest ==
    /\ pc = "request"
    /\ request.status = "received"
    /\ LET r == validate_and_parse_domains(request.domain)
       IN request' = IF r.ok
                     THEN [request EXCEPT !.domain = r.value, !.status = "validated"]
                     ELSE [request EXCEPT !.status = "rejected"]
    /\ UNCHANGED <<analyzer, db, faults, endpoint, domains, pc, round_num, domains_to_scan, retry_state,
                   futures, scan_cancellations, events, dispatch_log, response,
                   max_concurrent, confirmed_offline, cancel_requested_at>>

\* first statement of scan_domain and of event_stream
ParseDomains ==
    /\ pc = "request"
    /\ request.status = "validated"
    /\ request' = [request EXCEPT !.domains = split_domains(request.domain),
                                  !.status = "parsed"]
    /\ UNCHANGED <<analyzer, db, faults, endpoint, domains, pc, round_num, domains_to_scan, retry_state,
                   futures, scan_cancellations, events, dispatch_log, response,
                   max_concurrent, confirmed_offline, cancel_requested_at>>

NextValidate == ValidateRequest \/ ParseDomains

SpecValidate == InitValidate /\ [][NextValidate]_vars

(* ---- the scoring engine: classifiers of raw names ---- *)
\* The tests run in the order of the source and the first that holds returns.
parse_signature_algorithm(sig_algo) ==
    LET up == upper(sig_algo)
        has(x) == contains(up, x)
    IN \* PQC signatures
       IF has("DILITHIUM5") \/ has("ML-DSA-87") THEN "DILITHIUM5"
       ELSE IF has("DILITHIUM3") \/ has("ML-DSA-65") THEN "DILITHIUM3"
       ELSE IF has("DILITHIUM2") \/ has("ML-DSA-44") THEN "DILITHIUM2"
       ELSE IF has("DILITHIUM") \/ has("ML-DSA") THEN "DILITHIUM"
       ELSE IF has("FALCON1024") THEN "FALCON1024"
       ELSE IF has("FALCON512") THEN "FALCON512"
       ELSE IF has("FALCON") THEN "FALCON"
       ELSE IF has("SPHINCS+") \/ has("SLH-DSA") THEN "SPHINCS+"
       ELSE IF has("SPHINCS") THEN "SPHINCS"
       \* hash-based
       ELSE IF has("XMSS") THEN "XMSS"
       ELSE IF has("LMS") \/ has("HSS-LMS") THEN "LMS"
       \* hybrid
       ELSE IF has("RSA") /\ has("DILITHIUM") THEN "RSA+DILITHIUM"
       ELSE IF has("ECDSA") /\ has("DILITHIUM") THEN "ECDSA+DILITHIUM"
       ELSE IF has("ECDSA") /\ has("FALCON") THEN "ECDSA+FALCON"
       ELSE IF has("ED448") /\ has("DILITHIUM") THEN "Ed448-DILITHIUM3"
       ELSE IF has("ED448") /\ has("FALCON") THEN "Ed448-FALCON1024"
       \* modern
       ELSE IF has("ED448") THEN "Ed448"
       ELSE IF has("ED25519") \/ has("EDDSA") THEN "Ed25519"
       \* RSA variants
       ELSE IF has("RSA-PSS") \/ has("RSASSA-PSS") THEN "RSA-PSS"
       ELSE IF has("ECDSA") THEN "ECDSA"
       ELSE IF has("SM2") THEN "SM2"
       ELSE IF has("GOST") THEN "GOST-SIGNATURE"
       ELSE IF has("RSA") THEN "RSA"
       ELSE IF has("DSA") \/ has("DSS") THEN "DSA"
       ELSE "RSA"

\* None is modelled as "": every caller tests the result with `if kex_algo:` / `if sym_algo:`
parse_algorithm_from_suite(suite_name, field) ==
    LET upper_name == upper(suite_name)
        has(x) == contains(upper_name, x)
        pqcs == <<"KYBER1024", "KYBER768", "KYBER512", "KYBER", "NTRU", "SABER", "FRODO">>
        found == {i \in 1..Len(pqcs) : has(pqcs[i])}
        pqc == pqcs[CHOOSE i \in found : \A j \in found : i <= j]
        kex == IF found # {}
               THEN IF has("X25519") THEN "X25519-" \o pqc
                    ELSE IF has("X448") THEN "X448-" \o pqc
                    ELSE IF has("P256") THEN "P256-" \o pqc
                    ELSE IF has("P384") THEN "P384-" \o pqc
                    ELSE pqc
               ELSE IF has("ECDHE")
                    THEN IF has("X25519") THEN "X25519" ELSE IF has("X448") THEN "X448" ELSE "ECDHE"
               ELSE IF has("DHE") /\ ~has("ECDHE") THEN "DHE"
               ELSE IF has("FFDHE8192") THEN "ffdhe8192"
               ELSE IF has("FFDHE6144") THEN "ffdhe6144"
               ELSE IF has("FFDHE4096") THEN "ffdhe4096"
               ELSE IF has("FFDHE3072") THEN "ffdhe3072"
               ELSE IF has("FFDHE2048") THEN "ffdhe2048"
               ELSE IF has("DH-RSA") THEN "DH-RSA"
               ELSE IF has("DH-DSS") THEN "DH-DSS"
               ELSE IF has("ANON") /\ has("DH") THEN "ANON-DH"
               ELSE IF has("_RSA_") \/ has("TLS_RSA_") THEN "RSA"
               ELSE IF has("ECDH") THEN "ECDH"
               ELSE IF has("_DH_") THEN "DH"
               ELSE IF has("PSK")
                    THEN IF has("ECDHE") THEN "ECDHE-PSK"
                         ELSE IF has("DHE") THEN "DHE-PSK"
                         ELSE IF has("RSA") THEN "RSA-PSK"
                         ELSE "PSK"
               ELSE ""
        symmetric == IF has("AES_256_GCM") THEN "AES-256-GCM"
                     ELSE IF has("AES_192_GCM") THEN "AES-192-GCM"
                     ELSE IF has("AES_128_GCM") THEN "AES-128-GCM"
                     ELSE IF has("AES_256_CCM") THEN "AES-256-CCM"
                     ELSE IF has("AES_128_CCM") THEN "AES-128-CCM"
                     ELSE IF has("AES_256") THEN "AES-256"
                     ELSE IF has("AES_192") THEN "AES-192"
                     ELSE IF has("AES_128") THEN "AES-128"
                     ELSE IF has("CHACHA20")
                          THEN IF has("POLY1305") THEN "ChaCha20-Poly1305" ELSE "ChaCha20"
                     ELSE IF has("CAMELLIA_256") THEN "Camellia-256"
                     ELSE IF has("CAMELLIA_128") THEN "Camellia-128"
                     ELSE IF has("ARIA_256") THEN "ARIA-256"
                     ELSE IF has("ARIA_128") THEN "ARIA-128"
                     ELSE IF has("ASCON") THEN "ASCON-128"
                     ELSE IF has("3DES") THEN "3DES"
                     ELSE IF has("RC4") THEN "RC4"
                     ELSE IF has("DES") /\ ~has("3DES") THEN "DES"
                     ELSE ""
    IN IF field = "kex" THEN kex ELSE IF field = "symmetric" THEN symmetric ELSE ""

parse_hash_algorithm(hash_algo) ==
    LET up == upper(hash_algo)
        has(x) == contains(up, x)
    IN IF has("SHA3-512") \/ has("SHA3_512") THEN "SHA3-512"
       ELSE IF has("SHA3-384") \/ has("SHA3_384") THEN "SHA3-384"
       ELSE IF has("SHA3-256") \/ has("SHA3_256") THEN "SHA3-256"
       ELSE IF has("SHA3") THEN "SHA3-256"
       ELSE IF has("SHAKE256") THEN "SHAKE256"
       ELSE IF has("SHAKE128") THEN "SHAKE128"
       ELSE IF has("SHA512/256") THEN "SHA512/256"
       ELSE IF has("SHA512") \/ has("SHA-512") THEN "SHA512"
       ELSE IF has("SHA384") \/ has("SHA-384") THEN "SHA384"
       ELSE IF has("SHA256") \/ has("SHA-256") THEN "SHA256"
       ELSE IF has("SHA224") \/ has("SHA-224") THEN "SHA224"
       ELSE IF has("SHA1") \/ has("SHA-1") THEN "SHA1"
       ELSE IF has("MD5") THEN "MD5"
       ELSE IF has("MD4") THEN "MD4"
       ELSE IF has("BLAKE3") THEN "BLAKE3"
       ELSE IF has("BLAKE2B-512") THEN "BLAKE2b-512"
       ELSE IF has("BLAKE2B") THEN "BLAKE2b"
       ELSE IF has("BLAKE2S") THEN "BLAKE2s"
       ELSE IF has("ASCON") THEN "ASCON-HASH"
       ELSE IF has("STREEBOG-512") THEN "STREEBOG-512"
       ELSE IF has("STREEBOG") THEN "STREEBOG-256"
       ELSE IF has("LSH-512") THEN "LSH-512"
       ELSE IF has("LSH") THEN "LSH-256"
       ELSE IF has("WHIRLPOOL") THEN "Whirlpool"
       ELSE IF has("SM3") THEN "SM3"
       ELSE IF has("RIPEMD") THEN "RIPEMD-160"
       ELSE IF has("KECCAK") THEN "Keccak"
       ELSE IF has("GOST") THEN "GOST-HASH"
       ELSE "SHA256"

(* ---- the scoring engine: the report of one scan ---- *)
RECURSIVE SeqSum(_)
SeqSum(s) == IF s = <<>> THEN 0 ELSE Head(s) + SeqSum(Tail(s))

RECURSIVE GCD(_, _)
GCD(a, b) == IF b = 0 THEN a ELSE GCD(b, a % b)

\* least common multiple of the members of a sequence
RECURSIVE SeqLCM(_)
SeqLCM(s) ==
    IF s = <<>> THEN 1
    ELSE LET rest == SeqLCM(Tail(s)) IN (Head(s) \div GCD(Head(s), rest)) * rest

RECURSIVE Flatten(_)
Flatten(ss) == IF ss = <<>> THEN <<>> ELSE Head(ss) \o Flatten(Tail(ss))

ComponentTypes == <<"kex", "signature", "symmetric", "certificate", "protocol">>

\* key_size = 256 if "256" in sym_algo else (192 if "192" in sym_algo else 128)
symmetric_key_size(sym_algo) ==
    IF contains(sym_algo, "256") THEN 256 ELSE IF contains(sym_algo, "192") THEN 192 ELSE 128

\* the scores one TLS 1.2 suite adds, at its position (0-based) in the list
tls12_scores(suite, position) ==
    LET kex_algo == IF suite.key_exchange # "" THEN suite.key_exchange
                    ELSE parse_algorithm_from_suite(suite.name, "kex")
        sym_algo == parse_algorithm_from_suite(suite.name, "symmetric")
    IN [kex |-> IF kex_algo # ""
                THEN <<score_individual_algorithm(kex_algo, "kex", 0, suite.curve,
                                                  suite.curve_bits, position)>>
                ELSE <<>>,
        symmetric |-> IF sym_algo # ""
                      THEN <<score_individual_algorithm(sym_algo, "symmetric",
                                                        symmetric_key_size(sym_algo), "", 0, position)>>
                      ELSE <<>>]

\* the scores one TLS 1.3 suite adds: the key exchange is also passed as the curve
tls13_scores(suite, position) ==
    LET kex == suite.key_exchange
        sym_algo == parse_algorithm_from_suite(suite.name, "symmetric")
    IN [kex |-> IF kex # ""
                THEN <<score_individual_algorithm(kex, "kex", 0, kex, suite.curve_bits, position)>>
                ELSE <<>>,
        symmetric |-> IF sym_algo # ""
                      THEN <<score_individual_algorithm(sym_algo, "symmetric",
                                                        symmetric_key_size(sym_algo), "", 0, position)>>
                      ELSE <<>>]

\* version_scores is a dict: a version listed twice is scored once
version_scores(supported_versions) ==
    LET firsts == {i \in 1..Len(supported_versions) :
                      \A j \in 1..(i - 1) : supported_versions[j] # supported_versions[i]}
    IN SelectSeq([i \in 1..Len(supported_versions) |-> <<i, supported_versions[i]>>],
                 LAMBDA p : p[1] \in firsts)

\* component_data after the five loops
component_data(data) ==
    LET t12 == [i \in 1..Len(data.tls12_suites) |-> tls12_scores(data.tls12_suites[i], i - 1)]
        t13 == [i \in 1..Len(data.tls13_suites) |-> tls13_scores(data.tls13_suites[i], i - 1)]
        certs == data.certificate_signatures
        hs == data.handshake_signatures
        versions == version_scores(data.supported_protocols)
    IN [kex |-> Flatten([i \in 1..Len(t12) |-> t12[i].kex])
                  \o Flatten([i \in 1..Len(t13) |-> t13[i].kex]),
        symmetric |-> Flatten([i \in 1..Len(t12) |-> t12[i].symmetric])
                        \o Flatten([i \in 1..Len(t13) |-> t13[i].symmetric]),
        signature |-> [i \in 1..Len(certs) |->
                          score_individual_algorithm(
                              parse_signature_algorithm(certs[i].signature_algorithm),
                              "signature", certs[i].public_key_size, "", 0, certs[i].position)]
                        \o [i \in 1..Len(hs) |->
                               score_individual_algorithm(parse_signature_algorithm(hs[i]),
                                                          "signature", 0, "", 0, i - 1)],
        certificate |-> [i \in 1..Len(certs) |->
                            score_individual_algorithm(parse_hash_algorithm(certs[i].hash_algorithm),
                                                       "hash", 0, "", 0, certs[i].position)],
        protocol |-> [i \in 1..Len(versions) |->
                         score_individual_algorithm(versions[i][2], "protocol", 0, "", 0, 0)]]

\* sum(weighted_scores) / sum(position_weights) as a fraction: the weights
\* 20 / (20 + position) are brought over the common multiple of their denominators
weighted_avg(scores) ==
    LET dens == [i \in 1..Len(scores) |-> 20 + scores[i].position]
        all == SeqLCM(dens)
        weights == SeqSum([i \in 1..Len(scores) |-> 20 * (all \div dens[i])])
    IN [num |-> SeqSum([i \in 1..Len(scores) |-> scores[i].weighted_score]) * all,
        den |-> 100 * weights]

\* the ComponentAnalysis of a category that has scores; average_score,
\* weighted_average and the percentages are in hundredths, weight_in_final
\* in hundredths of the total
ComponentAnalysis(comp_type, scores) ==
    LET n == Len(scores)
        avg == weighted_avg(scores)
        capped == IF avg.num >= 100 * avg.den THEN [num |-> 100, den |-> 1] ELSE avg
        best == CHOOSE i \in 1..n :
                    /\ \A j \in 1..n : scores[j].final_score <= scores[i].final_score
                    /\ \A j \in 1..(i - 1) : scores[j].final_score < scores[i].final_score
        worst == CHOOSE i \in 1..n :
                     /\ \A j \in 1..n : scores[j].final_score >= scores[i].final_score
                     /\ \A j \in 1..(i - 1) : scores[j].final_score > scores[i].final_score
    IN [component_type |-> comp_type,
        algorithms |-> scores,
        average_score |-> round2(SeqSum([i \in 1..n |-> scores[i].final_score]), n),
        weighted_average |-> round2(capped.num, capped.den),
        grade |-> score_to_grade(capped.num \div capped.den),
        weight_in_final |-> WEIGHTS(comp_type),
        best_algorithm |-> scores[best].algorithm,
        worst_algorithm |-> scores[worst].algorithm,
        pqc_percentage |-> round2(100 * Cardinality({i \in 1..n : scores[i].is_pqc}), n),
        hybrid_percentage |-> round2(100 * Cardinality({i \in 1..n : scores[i].is_hybrid}), n),
        deprecated_count |-> Cardinality({i \in 1..n : scores[i].deprecated}),
        quantum_safe_count |-> Cardinality({i \in 1..n : scores[i].quantum_safe}),
        pfs_enabled |-> /\ comp_type = "kex"
                        /\ \E i \in 1..n : contains_any(upper(scores[i].algorithm),
                                                        {"DHE", "ECDHE", "X25519", "X448"})]

\* `if not scores: continue`: a category without scores gets no entry
build_components(by_type) ==
    [c \in {t \in DOMAIN by_type : by_type[t] # <<>>} |-> ComponentAnalysis(c, by_type[c])]

\* the sum divided by the weights of the categories that are present
overall_score_renormalised(components) ==
    LET present == SelectSeq(ComponentTypes, LAMBDA c : c \in DOMAIN components)
        total == SeqSum([i \in 1..Len(present) |->
                            components[present[i]].weighted_average
                              * components[present[i]].weight_in_final])
        share == SeqSum([i \in 1..Len(present) |-> components[present[i]].weight_in_final])
    IN IF share = 0 THEN 0 ELSE (100 * total) \div share

\* sum(comp.weighted_average * comp.weight_in_final for comp in components.values()),
\* in ten-thousandths
overall_score(components) ==
    LET present == SelectSeq(ComponentTypes, LAMBDA c : c \in DOMAIN components)
    IN SeqSum([i \in 1..Len(present) |->
                  components[present[i]].weighted_average * components[present[i]].weight_in_final])

\* the FinalReport built from component_data, without the certificate,
\* feature and compliance sub-analyses, which read the scores and change
\* nothing; `tie` is the side on which the float sum fell when it lies
\* between two hundredths
build_report(by_type, tie) ==
    LET components == build_components(by_type)
        overall == overall_score(components)
        has(c) == c \in DOMAIN components
    IN [components |-> components,
        individual_scores |-> Len(by_type.kex) + Len(by_type.symmetric)
                                + Len(by_type.signature) + Len(by_type.certificate),
        overall_score |-> round2_tie(overall, 10000, tie),
        overall_grade |-> score_to_grade(overall \div 10000),
        security_level |-> get_security_level(overall \div 10000),
        quantum_ready |-> /\ overall >= 80 * 10000
                          /\ \/ has("kex") /\ components["kex"].pqc_percentage > 0
                             \/ has("signature") /\ components["signature"].pqc_percentage > 0
                             \/ /\ has("kex") /\ components["kex"].weighted_average >= 8500
                                /\ has("signature") /\ components["signature"].weighted_average >= 8500,
        hybrid_ready |-> \E c \in DOMAIN components : components[c].hybrid_percentage > 0]

(* ---- the scoring engine called on its own ---- *)
service_vars == <<faults, endpoint, domains, pc, round_num, domains_to_scan, retry_state,
                  futures, scan_cancellations, events, dispatch_log, response,
                  max_concurrent, confirmed_offline, cancel_requested_at, request, db>>

\* no request is being served
ServiceIdle ==
    /\ request = [raw |-> <<>>, domain |-> <<>>, save_to_db |-> TRUE,
                  status |-> "none", domains |-> <<>>]
    /\ db = NoDatabase
    /\ faults = {}
    /\ max_concurrent = default_max_concurrent
    /\ confirmed_offline = {}
    /\ cancel_requested_at = [round |-> 0, pc |-> "never"]
    /\ endpoint = "scan"
    /\ domains = <<>>
    /\ pc = "idle"
    /\ round_num = 1
    /\ domains_to_scan = <<>>
    /\ retry_state = NewRetryState
    /\ futures = <<>>
    /\ scan_cancellations = {}
    /\ events = <<>>
    /\ dispatch_log = {}
    /\ response = [type |-> "none"]

Call(method, input) == [method |-> method, status |-> "called", input |-> input, output |-> NoCall]

\* names as the parsers and the scanner hand them over: table keys of every
\* family, a lower-case spelling, a hybrid, a protocol version, an unknown name
ScoredAlgorithms ==
    {"AES-256-GCM", "aes-128-gcm", "RSA", "ECDSA", "ECDHE", "X25519", "secp224r1",
     "KYBER768", "SIKE", "DSA", "ECDSA+FALCON", "RSA-PSS", "TLS 1.3", "none"}

AlgorithmTypes == {"kex", "signature", "symmetric", "hash", "protocol"}

KeySizes == {0, 128, 256, 1024, 2048, 4096}

Curves == {"", "X25519", "secp384r1", "brainpoolP256r1"}

CurveBits == {0, 256}

Positions == 0..MaxPosition

ScoreInputs ==
    [algorithm : ScoredAlgorithms, algo_type : AlgorithmTypes, key_size : KeySizes,
     curve : Curves, curve_bits : CurveBits, position : Positions]

ScoreOf(in) ==
    score_individual_algorithm(in.algorithm, in.algo_type, in.key_size,
                               in.curve, in.curve_bits, in.position)

InitScore ==
    /\ ServiceIdle
    /\ analyzer \in {Call("score_individual_algorithm", in) : in \in ScoreInputs}

Score ==
    /\ analyzer.method = "score_individual_algorithm"
    /\ analyzer.status = "called"
    /\ analyzer' = [analyzer EXCEPT !.status = "returned", !.output = ScoreOf(analyzer.input)]
    /\ UNCHANGED service_vars

NextScore == Score

SpecScore == InitScore /\ [][NextScore]_vars

(* ---- the signature classifier called on its own ---- *)
ClassicalNames == {"RSA", "ECDSA", "Ed448", "Ed25519", "rsa", "ecdsa"}

PqcNames == {"DILITHIUM", "DILITHIUM3", "FALCON", "FALCON512", "dilithium2", "falcon1024"}

Separators == {"+", "-", "_"}

\* raw names of the scanner: the two halves of a combination in either
\* order, and names of one scheme
SignatureNames ==
    {c \o sep \o q : c \in ClassicalNames, sep \in Separators, q \in PqcNames}
    \cup {q \o sep \o c : c \in ClassicalNames, sep \in Separators, q \in PqcNames}
    \cup ClassicalNames \cup PqcNames
    \cup {"sha256WithRSAEncryption", "ecdsa-with-SHA256", "rsa_pss_rsae_sha256",
          "RSASSA-PSS", "SPHINCS+", "SLH-DSA", "XMSS", "LMS", "ML-DSA-65", "SM2",
          "GOST R 34.10-2012", "dsa_sha1", ""}

InitSignature ==
    /\ ServiceIdle
    /\ analyzer \in {Call("parse_signature_algorithm", [sig_algo |-> n]) : n \in SignatureNames}

ParseSignature ==
    /\ analyzer.method = "parse_signature_algorithm"
    /\ analyzer.status = "called"
    /\ analyzer' = [analyzer EXCEPT !.status = "returned",
                                    !.output = parse_signature_algorithm(analyzer.input.sig_algo)]
    /\ UNCHANGED service_vars

NextSignature == ParseSignature

SpecSignature == InitSignature /\ [][NextSignature]_vars

(* ---- the report builder called on one scan result ---- *)
SeqsUpTo(S, n) == UNION {[1..k -> S] : k \in 0..n}

\* TLS 1.2 suites as the scanner reports them; the key exchange is parsed from the name
Tls12Suites ==
    {[name |-> "TLS_ECDHE_RSA_WITH_AES_128_GCM_SHA256", key_exchange |-> "",
      curve |-> "secp256r1", curve_bits |-> 256]}

\* TLS 1.3 suites: one with a cipher name, one that reports only its key exchange
Tls13Suites ==
    {[name |-> "TLS_AES_256_GCM_SHA384", key_exchange |-> "X25519", curve_bits |-> 253],
     [name |-> "", key_exchange |-> "X25519MLKEM768", curve_bits |-> 0]}

CertificateSignatures ==
    {[signature_algorithm |-> "sha256WithRSAEncryption", hash_algorithm |-> "SHA256",
      public_key_size |-> 2048, position |-> 0]}

HandshakeSignatures == {"ecdsa_secp256r1_sha256", "dilithium3"}

ProtocolLists == {<<>>, <<"TLS 1.3">>, <<"TLS 1.2", "TLS 1.3">>}

ScanResults ==
    [tls12_suites : SeqsUpTo(Tls12Suites, 1),
     tls13_suites : SeqsUpTo(Tls13Suites, MaxEntries),
     certificate_signatures : SeqsUpTo(CertificateSignatures, 1),
     handshake_signatures : SeqsUpTo(HandshakeSignatures, MaxEntries),
     supported_protocols : ProtocolLists]

InitReport ==
    /\ ServiceIdle
    /\ analyzer \in {Call("analyze_tls_configuration", data) : data \in ScanResults}

\* analyze_tls_configuration: the five loops that fill component_data, then the report
Analyze ==
    /\ analyzer.method = "analyze_tls_configuration"
    /\ analyzer.status = "called"
    /\ \E by_type \in {component_data(analyzer.input)}, tie \in TieOutcomes :
          analyzer' = [analyzer EXCEPT !.status = "returned", !.output = build_report(by_type, tie)]
    /\ UNCHANGED service_vars

NextReport == Analyze

SpecReport == InitReport /\ [][NextReport]_vars

(* ---- remove_duplicates_from_structure (crypto_audit.py) ---- *)
\* A JSON value is <<tag, payload>>: <<"int", 1>>, <<"bool", TRUE>>, <<"str", "s">>,
\* <<"null", "None">>, <<"list", items>>, and <<"dict", items>> with the
\* <<key, value>> pairs in the order the dict keeps them.  A Python tuple is <<"tuple", items>>.
PyInt(n) == <<"int", n>>

PyBool(b) == <<"bool", b>>

PyStr(s) == <<"str", s>>

PyList(items) == <<"list", items>>

PyDict(items) == <<"dict", items>>

PyTuple(items) == <<"tuple", items>>

\* isinstance(i, (str, int, float, bool, type(None)))
is_primitive(v) == v[1] \in {"str", "int", "bool", "null"}

\* repr() of a value, as str(list) prints its elements
RECURSIVE py_repr(_)
RECURSIVE join_repr(_, _)
join_repr(items, is_dict) ==
    IF items = <<>> THEN ""
    ELSE LET one == IF is_dict
                    THEN "'" \o items[1][1] \o "': " \o py_repr(items[1][2])
                    ELSE py_repr(items[1])
         IN IF Len(items) = 1 THEN one ELSE one \o ", " \o join_repr(Tail(items), is_dict)

py_repr(v) ==
    CASE v[1] = "int" -> ToString(v[2])
      [] v[1] = "bool" -> IF v[2] THEN "True" ELSE "False"
      [] v[1] = "str" -> "'" \o v[2] \o "'"
      [] v[1] = "null" -> "None"
      [] v[1] = "list" -> "[" \o join_repr(v[2], FALSE) \o "]"
      [] v[1] = "dict" -> "{" \o join_repr(v[2], TRUE) \o "}"

\* == on the values dict_to_tuple builds: tuples element by element, numbers by
\* value (True == 1), everything else by type and content; equal values hash alike
RECURSIVE py_eq(_, _)
py_eq(a, b) ==
    IF a[1] = "tuple" /\ b[1] = "tuple"
    THEN /\ Len(a[2]) = Len(b[2])
         /\ \A i \in 1..Len(a[2]) : py_eq(a[2][i], b[2][i])
    ELSE IF a[1] \in {"int", "bool"} /\ b[1] \in {"int", "bool"}
    THEN LET num(v) == IF v[1] = "bool" THEN (IF v[2] THEN 1 ELSE 0) ELSE v[2]
         IN num(a) = num(b)
    ELSE a[1] = b[1] /\ a[2] = b[2]

\* the keys of the model are single lower-case letters; Python orders them by code point
Alphabet == "abcdefghijklmnopqrstuvwxyz"

KeyRank(k) == CHOOSE i \in 1..Len(Alphabet) : Char(Alphabet, i) = k

\* sorted(d.items()): the keys of a dict are distinct, so the keys alone decide
sorted_items(items) ==
    LET n == Len(items)
        before(j) == Cardinality({k \in 1..n : KeyRank(items[k][1]) < KeyRank(items[j][1])})
    IN [i \in 1..n |-> items[CHOOSE j \in 1..n : before(j) = i - 1]]

RECURSIVE dict_to_tuple(_)
dict_to_tuple(d) ==
    LET items == sorted_items(d[2])
        entry(k, v) ==
            IF v[1] = "dict" THEN PyTuple(<<PyStr(k), dict_to_tuple(v)>>)
            ELSE IF v[1] = "list"
            THEN PyTuple(<<PyStr(k), IF \A i \in 1..Len(v[2]) : is_primitive(v[2][i])
                                 THEN PyTuple(v[2])
                                 ELSE PyStr(py_repr(v))>>)
            ELSE PyTuple(<<PyStr(k), v>>)
    IN PyTuple([i \in 1..Len(items) |-> entry(items[i][1], items[i][2])])

\* list(dict.fromkeys(obj)) on a list of hashable values: the first of equal values stays
fromkeys(items) ==
    LET first(i) == \A j \in 1..(i - 1) : ~py_eq(PyTuple(<<items[j]>>), PyTuple(<<items[i]>>))
    IN SelectSeq([i \in 1..Len(items) |-> <<i, items[i]>>], LAMBDA p : first(p[1]))

RECURSIVE remove_duplicates_from_structure(_)
RECURSIVE unique_items(_, _, _)
\* the loop over a list whose first element is a dict: seen, unique_items
unique_items(obj, seen, unique) ==
    IF obj = <<>> THEN unique
    ELSE LET cleaned_item == remove_duplicates_from_structure(Head(obj))
         IN IF cleaned_item[1] = "dict"
            THEN LET item_tuple == dict_to_tuple(cleaned_item)
                 IN IF \E i \in 1..Len(seen) : py_eq(seen[i], item_tuple)
                    THEN unique_items(Tail(obj), seen, unique)
                    ELSE unique_items(Tail(obj), Append(seen, item_tuple),
                                      Append(unique, cleaned_item))
            ELSE unique_items(Tail(obj), seen, unique)

\* a list that starts with a string or a number holds only strings and numbers here
\* (dict.fromkeys raises TypeError on a dict or a list)
remove_duplicates_from_structure(obj) ==
    IF obj[1] = "dict"
    THEN PyDict([i \in 1..Len(obj[2]) |->
                  <<obj[2][i][1], remove_duplicates_from_structure(obj[2][i][2])>>])
    ELSE IF obj[1] = "list"
    THEN IF obj[2] # <<>> /\ obj[2][1][1] = "dict"
         THEN PyList(unique_items(obj[2], <<>>, <<>>))
         ELSE IF obj[2] # <<>> /\ obj[2][1][1] \in {"str", "int", "bool"}
         THEN LET kept == fromkeys(obj[2])
              IN PyList([i \in 1..Len(kept) |-> kept[i][2]])
         ELSE PyList([i \in 1..Len(obj[2]) |-> remove_duplicates_from_structure(obj[2][i])])
    ELSE obj

(* ---- remove_duplicates_from_structure called on one list ---- *)
\* dicts with the keys x and y in either order, as two scans of one thing serialise them
LeafDicts ==
    UNION {{PyDict(<<<<"x", xv>>, <<"y", PyInt(2)>>>>), PyDict(<<<<"y", PyInt(2)>>, <<"x", xv>>>>)} :
           xv \in {PyInt(1), PyInt(2), PyBool(TRUE)}}

\* the entries of a list: a leaf, a leaf inside a dict, a leaf inside a list inside
\* a dict, and dicts that hold an empty dict, an empty list or a list of numbers
DedupEntries ==
    LeafDicts
    \cup {PyDict(<<<<"a", leaf>>>>) : leaf \in LeafDicts}
    \cup {PyDict(<<<<"a", PyList(<<leaf>>)>>>>) : leaf \in LeafDicts}
    \cup {PyDict(<<<<"a", PyDict(<<>>)>>>>), PyDict(<<<<"a", PyList(<<>>)>>>>),
          PyDict(<<<<"a", PyList(<<PyInt(1), PyInt(2)>>)>>>>), PyDict(<<<<"a", PyList(<<PyInt(2), PyInt(1)>>)>>>>)}

DedupInputs == {PyList(entries) : entries \in SeqsUpTo(DedupEntries, MaxItems)}

InitDedup ==
    /\ ServiceIdle
    /\ analyzer \in {Call("remove_duplicates_from_structure", obj) : obj \in DedupInputs}

Dedup ==
    /\ analyzer.method = "remove_duplicates_from_structure"
    /\ analyzer.status = "called"
    /\ analyzer' = [analyzer EXCEPT !.status = "returned",
                                    !.output = remove_duplicates_from_structure(analyzer.input)]
    /\ UNCHANGED service_vars

NextDedup == Dedup

SpecDedup == InitDedup /\ [][NextDedup]_vars

(***************************************************************************)
(* Properties                                                              *)
(***************************************************************************)
\* the orchestrator has produced its final response (not the one-domain /scan)
Terminated == pc = "done" /\ response.type \in {"complete", "final_response"}

Requested == Range(domains)

CancelledFailure(d) ==
    /\ d \in FailedSet(retry_state)
    /\ FailureOf(retry_state, d).error = CancelledError

\* C1: a domain that fails the DNS precheck is in the failure map before
\* round 1 and is never submitted to the worker pool in any round, under
\* /scan and under /scan-with-progress.
C1_OfflineNeverDispatched ==
    /\ (pc = "round_start" /\ round_num = 1) => confirmed_offline \subseteq FailedSet(retry_state)
    /\ \A e \in dispatch_log : e[2] \notin confirmed_offline

\* C2: a future that met a rate-limit signal is re-invoked for the same
\* domain inside its round, up to 3 invocations, sleeping 5 * 2^k seconds
\* before invocation k + 2, before its result reaches the pool.
C2_RateLimitRetriedInRound ==
    \A i \in DOMAIN futures :
        (futures[i].status = "done" /\ futures[i].rate_signals > 0) =>
            /\ futures[i].invocations >= Min(futures[i].rate_signals + 1, max_backoff_retries)
            /\ Len(futures[i].waits) = futures[i].invocations - 1
            /\ \A k \in DOMAIN futures[i].waits :
                   futures[i].waits[k] = backoff_base * Pow2(k - 1)

\* C3: a /scan-with-progress request that has stopped has emitted exactly one
\* `complete` event, as its last event, carrying the summary of RetryState,
\* whatever ended it (also when precheck leaves no domain to scan).
C3_CompleteAlwaysLast ==
    (endpoint = "stream" /\ pc \in {"done", "crashed"}) =>
        /\ events # <<>>
        /\ events[Len(events)].type = "complete"
        /\ Cardinality({i \in DOMAIN events : events[i].type = "complete"}) = 1
        /\ response = Summary(retry_state)

\* C4: when the orchestrator of a multi-domain request terminates, every
\* requested domain is in exactly one of the success list and the failure
\* map, and successful + failed = total in the summary.
C4_EveryDomainAccounted ==
    (Terminated /\ Len(domains) > 1) =>
        /\ \A d \in Requested : (d \in SuccessSet(retry_state)) # (d \in FailedSet(retry_state))
        /\ response.successful + response.failed = response.total

\* the cancellation flag was set before round 2 started
CancelledBeforeRound2 ==
    \/ cancel_requested_at.round = 1
    \/ cancel_requested_at.round = 2 /\ cancel_requested_at.pc = "round_start"

\* C5: if the cancellation flag is set before round 2 starts, nothing is
\* dispatched in round 2 or later, and every domain that has not completed
\* successfully ends in the failure map with "Scan cancelled by user"
\* (read in the claim's favour: the domains already failed by the precheck
\* are not asked to carry the cancellation message).
C5_CancelBeforeRound2 ==
    (endpoint = "stream" /\ CancelledBeforeRound2) =>
        /\ \A e \in dispatch_log : e[1] < 2
        /\ pc = "done" =>
              \A d \in Requested \ (SuccessSet(retry_state) \cup confirmed_offline) :
                  CancelledFailure(d)

\* C6: when cancellation is observed at a completion boundary in the middle
\* of a round, every domain of the round whose probe had not started is in
\* the failure map as cancelled when the request ends.
C6_NotStartedMarkedCancelled ==
    pc = "done" =>
        \A i \in DOMAIN futures :
            futures[i].status = "cancelled" => CancelledFailure(futures[i].domain)

\* every probe of the request failed with an error other than a rate limit,
\* every domain passed the precheck and nobody cancelled
AllProbesFailed ==
    /\ confirmed_offline = {}
    /\ cancel_requested_at.pc = "never"
    /\ retry_state.successful_domains = <<>>
    /\ \A k \in faults : k.tool # "rate_limited"

\* C7: a batch whose domains all pass the precheck and whose probes all fail
\* with a non-rate-limit error ends after exactly 3 rounds (every domain
\* dispatched in rounds 1, 2, 3 and in no other) with every requested domain
\* in the failure map.
C7_AllFailThreeRounds ==
    (Terminated /\ AllProbesFailed) =>
        /\ response.rounds_completed = max_retries
        /\ dispatch_log = (1..max_retries) \X Requested
        /\ Range(response.failed_domains) = Requested
        /\ response.failed = Len(domains)

C7_Witness ==
    /\ Terminated
    /\ AllProbesFailed
    /\ endpoint = "stream"
    /\ Len(domains) = 2
    /\ response.rounds_completed = max_retries

\* C8: at every round boundary and at termination no domain is both in
\* successful_domains and in failed_domains.
C8_SuccessFailureDisjoint ==
    pc \in {"round_start", "final", "done"} =>
        SuccessSet(retry_state) \cap FailedSet(retry_state) = {}

\* C9: work submitted to a round's pool is unfinished only while that round
\* is collecting or draining: no round starts, and the request does not end,
\* while a probe of an earlier round is queued or running, also after a
\* round was interrupted by cancellation.
NoWorkOutsideItsRound ==
    \A i \in DOMAIN futures :
        futures[i].status \in {"pending", "running"} =>
            /\ pc \in {"collect", "drain"}
            /\ futures[i].attempt = round_num

\* a round's dispatch finds every future of the round before it collected
DispatchAfterSettled ==
    (pc = "round_start" /\ pc' = "collect") =>
        \A i \in DOMAIN futures : futures[i].status = "done" /\ futures[i].collected

C9_RoundsDoNotOverlap == []NoWorkOutsideItsRound /\ [][DispatchAfterSettled]_vars

C9_Witness ==
    /\ pc = "collect"
    /\ round_num = 2
    /\ \E i \in DOMAIN futures : futures[i].status = "running"
    /\ \E i \in DOMAIN futures : futures[i].status = "pending"

\* C10: at most 2 per-domain probes run at any moment, however many domains
\* the round has and whatever max_concurrent the request asks for.
C10_AtMostTwoProbes == Cardinality(Running) <= pool_cap

C10_Witness ==
    /\ Cardinality(Running) = pool_cap
    /\ \E i \in DOMAIN futures : futures[i].status = "pending"
    /\ max_concurrent > pool_cap

\* the future met the rate-limit signal on every invocation it made
OnlyRateLimited(f) == f.rate_signals > 0 /\ f.rate_signals = f.invocations

\* C11: a probe that was rate-limited on every invocation finishes with the
\* rate-limit status (HTTP 429, "Rate limit exceeded"), and once collected
\* its domain carries that message in the failure map (requests that nobody
\* cancelled, so that no later marking replaces the message).
C11_RateLimitStatusRecorded ==
    \A i \in DOMAIN futures :
        (OnlyRateLimited(futures[i]) /\ futures[i].status = "done") =>
            /\ futures[i].out.status_code = 429
            /\ futures[i].out.detail = RateLimitExceeded
            /\ (futures[i].collected /\ cancel_requested_at.pc = "never") =>
                   /\ futures[i].domain \in FailedSet(retry_state)
                   /\ FailureOf(retry_state, futures[i].domain).error = RateLimitExceeded

\* an entry in normal form: not empty, no whitespace at its ends, lower case,
\* no scheme, no trailing slash
NormalForm(d) ==
    /\ d # <<>>
    /\ Head(d) # " " /\ d[Len(d)] # " "
    /\ d[Len(d)] # "/"
    /\ \A i \in 1..Len(d) : d[i] \notin {"A.com", "https://", "http://"}

NoDuplicates(s) == \A i, j \in 1..Len(s) : s[i] = s[j] => i = j

\* C12: the domain list a handler works on has every entry in normal form
\* (trimmed, lower case, scheme and trailing slashes removed), holds no entry
\* twice and no empty entry, and a text that names no domain is rejected.
C12_DomainsNormalised ==
    /\ request.status = "parsed" =>
          /\ request.domains # <<>>
          /\ NoDuplicates(request.domains)
          /\ \A i \in 1..Len(request.domains) : NormalForm(request.domains[i])
    /\ (Range(request.raw) \cap DomainNames = {}) => request.status \in {"received", "rejected"}

\* the probe's verdict on a collected future is what RetryState holds
StatusDecidedByProbe(f) ==
    IF f.out.exc = "none"
    THEN f.domain \in SuccessSet(retry_state) /\ f.domain \notin FailedSet(retry_state)
    ELSE /\ f.domain \in FailedSet(retry_state) /\ f.domain \notin SuccessSet(retry_state)
         /\ FailureOf(retry_state, f.domain).error = f.out.detail

\* the generator stopped on an exception
Crashed == pc = "crashed"

\* C13: after persistence calls have failed, the scan is where it would be
\* without the failure: the generator has not stopped on an exception (other
\* than the one of a round without domains), every collected domain has the
\* status its probe decided, and a finished stream ends with `complete`
\* carrying the summary of RetryState.
C13_PersistenceFailureContained ==
    db.failed_calls > 0 =>
        /\ Crashed => domains_to_scan = <<>>
        /\ cancel_requested_at.pc = "never" =>
              \A i \in DOMAIN futures : futures[i].collected => StatusDecidedByProbe(futures[i])
        /\ pc = "done" =>
              /\ events[Len(events)].type = "complete"
              /\ response = Summary(retry_state)

C13_Witness ==
    /\ pc = "done"
    /\ db.failed_calls > 0
    /\ db.rows = {}
    /\ SuccessSet(retry_state) # {}
    /\ events[Len(events)].type = "complete"

(* ---- order of the events of a stream ---- *)
EventsOfType(t) == {k \in DOMAIN events : events[k].type = t}

\* what may stand immediately before the event at position k
FollowsProperly(k) ==
    LET e == events[k]
        prev == events[k - 1]
    IN CASE e.type = "start" -> FALSE
         [] e.type = "domain_offline" -> prev.type \in {"start", "domain_offline"}
         [] e.type = "round_start" ->
              IF e.round = 1 THEN prev.type \in {"start", "domain_offline"}
              ELSE prev.type = "retry_wait" /\ prev.round = e.round - 1
         [] e.type = "domain_processing" ->
              prev.type \in {"round_start", "domain_processing"} /\ prev.round = e.round
         [] e.type = "domain_complete" ->
              prev.type \in {"domain_processing", "domain_complete"} /\ prev.round = e.round
         [] e.type = "round_complete" ->
              prev.type \in {"domain_processing", "domain_complete"} /\ prev.round = e.round
         [] e.type = "retry_wait" -> prev.type = "round_complete" /\ prev.round = e.round
         [] OTHER -> TRUE

\* start first; offline events before the first round; each round in the
\* order round_start, domain_processing (one per dispatched domain),
\* domain_complete, round_complete
EventOrder ==
    /\ events # <<>> => events[1].type = "start"
    /\ \A k \in 2..Len(events) : FollowsProperly(k)
    /\ \A k \in EventsOfType("domain_offline"), j \in EventsOfType("round_start") : k < j
    /\ \A j \in EventsOfType("round_start") :
          events[j].round # round_num \/ pc # "round_start" =>
              Cardinality({k \in EventsOfType("domain_processing") : events[k].round = events[j].round})
                  = Cardinality({d \in dispatch_log : d[1] = events[j].round})

\* the stream announced a retry wait although the cancellation flag was
\* already set when the round ended
WaitAnnouncedAfterCancel(k) ==
    /\ cancel_requested_at.pc \in {"collect", "drain"}
    /\ cancel_requested_at.round = events[k].round

\* a retry_wait stands between the round_complete of a round before the last
\* and the round_start of the next round; the next round may fail to start
\* only because the cancellation arrived during the wait
RetryWaitJustified ==
    \A k \in EventsOfType("retry_wait") :
        /\ events[k].round < max_retries
        /\ ~WaitAnnouncedAfterCancel(k)
        /\ k < Len(events) =>
              \/ events[k + 1].type = "round_start" /\ events[k + 1].round = events[k].round + 1
              \/ /\ events[k + 1].type = "cancelled"
                 /\ cancel_requested_at.pc = "round_start"
                 /\ cancel_requested_at.round = events[k].round + 1

\* C14: the events of a stream come in the order start, domain_offline*,
\* then per round round_start, domain_processing (one per dispatched
\* domain), domain_complete*, round_complete; a retry_wait appears only
\* between a round_complete and the next round_start, and only when a
\* further round will run.
C14_EventOrder == EventOrder /\ RetryWaitJustified

\* positions of the events of one type about domain d in round r
RoundEvents(t, d, r) ==
    {k \in EventsOfType(t) : events[k].domain = d /\ events[k].round = r}

\* C15: when a round's round_complete event is emitted, every domain that
\* got a domain_processing event in that round has got exactly one
\* domain_complete event (completed or failed) of that round before it.
C15_OneCompletePerProcessing ==
    \A j \in EventsOfType("round_complete") :
        \A k \in EventsOfType("domain_processing") :
            events[k].round = events[j].round =>
                LET done == RoundEvents("domain_complete", events[k].domain, events[k].round)
                IN /\ Cardinality(done) = 1
                   /\ \A c \in done : c < j /\ events[c].status \in {"completed", "failed"}

\* a step keeps first_failed_at of every domain that stays in the failure map
FirstFailedAtKept ==
    \A d \in FailedSet(retry_state) \cap FailedSet(retry_state') :
        FailureOf(retry_state', d).first_failed_at = FailureOf(retry_state, d).first_failed_at

\* the first entry of the request that names d
FirstPosition(d) == CHOOSE i \in DOMAIN domains : domains[i] = d /\ \A j \in 1..(i - 1) : domains[j] # d

\* after the precheck, a domain that failed every one of its lookups carries
\* the instant of the first of them
PrecheckKeepsFirstFailure ==
    (pc = "round_start" /\ round_num = 1) =>
        \A d \in FailedSet(retry_state) \ Range(domains_to_scan) :
            FailureOf(retry_state, d).first_failed_at = <<0, FirstPosition(d)>>

\* C16: first_failed_at of a domain is the instant of its first failure and
\* no later failure of the domain (another failed lookup, a failure in a later
\* round, the cancellation marking) changes it while the domain stays in the
\* failure map; error and last_attempt are the ones of the latest failure.
C16_FirstFailedAtPreserved == []PrecheckKeepsFirstFailure /\ [][FirstFailedAtKept]_vars

(* ---- C17: the final score is the clamped sum ---- *)
Scored == analyzer.method = "score_individual_algorithm" /\ analyzer.status = "returned"

ClaimedExample ==
    /\ analyzer.input.algorithm = "AES-256-GCM"
    /\ analyzer.input.algo_type = "symmetric"
    /\ analyzer.input.key_size = 256
    /\ analyzer.input.curve = ""

\* C17: every score returned has final_score equal to base_score +
\* key_size_score + curve_strength brought into 0..100 (0 below the range, 100
\* above it), so final_score lies in 0..100; AES-256-GCM with key size 256
\* has base 90 and adjustment 20 and is returned as 100, grade A+.
C17_FinalScoreClamped ==
    Scored =>
        LET o == analyzer.output
            sum == o.base_score + o.key_size_score + o.curve_strength
        IN /\ o.final_score = (IF sum < 0 THEN 0 ELSE IF sum > 100 THEN 100 ELSE sum)
           /\ o.final_score \in 0..100
           /\ ClaimedExample =>
                 /\ o.base_score = 90
                 /\ o.key_size_score = 20
                 /\ o.final_score = 100
                 /\ o.grade = "A+"

\* the sum of the example exceeds 100 and the score returned is 100
C17_Witness ==
    /\ Scored
    /\ ClaimedExample
    /\ analyzer.output.base_score + analyzer.output.key_size_score
           + analyzer.output.curve_strength = 110
    /\ analyzer.output.final_score = 100

(* ---- C18: the weighted score against the position ---- *)
\* the weighted score of the same algorithm, type, key size and curve at position q
WeightedAt(q) == ScoreOf([analyzer.input EXCEPT !.position = q]).weighted_score

LaterPositions == {q \in Positions : q > analyzer.input.position}

SignatureParsed == analyzer.method = "parse_signature_algorithm" /\ analyzer.status = "returned"

\* the combinations the classifier's hybrid tests name: the two halves and
\* the identifier the signature table scores
HybridCombinations ==
    {<<"RSA", "DILITHIUM", "RSA+DILITHIUM">>,
     <<"ECDSA", "DILITHIUM", "ECDSA+DILITHIUM">>,
     <<"ECDSA", "FALCON", "ECDSA+FALCON">>,
     <<"ED448", "DILITHIUM", "Ed448-DILITHIUM3">>,
     <<"ED448", "FALCON", "Ed448-FALCON1024">>}

HybridIdentifiers == {h[3] : h \in HybridCombinations}

NamesBoth(name, h) == contains(upper(name), h[1]) /\ contains(upper(name), h[2])

\* C20: a raw name that names both halves of a hybrid combination is
\* returned as a hybrid identifier, not as one of its halves.
C20_HybridRecognised ==
    SignatureParsed =>
        \A h \in HybridCombinations :
            NamesBoth(analyzer.input.sig_algo, h) => analyzer.output \in HybridIdentifiers

\* what the classifier does instead: no raw name is ever returned as a
\* hybrid identifier
HybridNeverReturned == SignatureParsed => analyzer.output \notin HybridIdentifiers

(* ---- C19: categories without scores, and the overall score ---- *)
Reported == analyzer.method = "analyze_tls_configuration" /\ analyzer.status = "returned"

\* the categories for which the scan result holds something to score: a
\* suite with a key exchange, a suite whose name shows its cipher, a
\* certificate or handshake signature, a certificate, a protocol version
ScoredCategories ==
    LET data == analyzer.input
        suites == Range(data.tls12_suites) \cup Range(data.tls13_suites)
    IN {c \in Range(ComponentTypes) :
          \/ /\ c = "kex"
             /\ \/ \E t \in Range(data.tls12_suites) :
                      t.key_exchange # "" \/ parse_algorithm_from_suite(t.name, "kex") # ""
                \/ \E t \in Range(data.tls13_suites) : t.key_exchange # ""
          \/ c = "symmetric" /\ \E t \in suites : parse_algorithm_from_suite(t.name, "symmetric") # ""
          \/ /\ c = "signature"
             /\ data.certificate_signatures # <<>> \/ data.handshake_signatures # <<>>
          \/ c = "certificate" /\ data.certificate_signatures # <<>>
          \/ c = "protocol" /\ data.supported_protocols # <<>>}

\* weightedAverage x fixed weight of a category, 0 for a category that is
\* not in the report; in ten-thousandths
Contribution(c, weight) ==
    IF c \in DOMAIN analyzer.output.components
    THEN analyzer.output.components[c].weighted_average * weight
    ELSE 0

PresentSum ==
    Contribution("kex", 35) + Contribution("signature", 30) + Contribution("symmetric", 15)
      + Contribution("certificate", 10) + Contribution("protocol", 10)

\* the overall score of the report is x rounded to two decimals
RoundedFrom(x) == 100 * analyzer.output.overall_score - x \in -50..50

\* C19: the report's components are exactly the categories that have at
\* least one score, none of them a placeholder without algorithms, and the
\* overall score is the sum of weightedAverage x fixed weight over those
\* categories, with the weights as they are (the report carries the sum
\* rounded to two decimals); with only kex and signature present it is
\* kex.weightedAverage * 0.35 + signature.weightedAverage * 0.30.
C19_AbsentCategoriesOmitted ==
    Reported =>
        LET components == analyzer.output.components
        IN /\ DOMAIN components = ScoredCategories
           /\ \A c \in DOMAIN components : components[c].algorithms # <<>>
           /\ RoundedFrom(PresentSum)
           /\ DOMAIN components = {"kex", "signature"} =>
                 RoundedFrom(components["kex"].weighted_average * 35
                               + components["signature"].weighted_average * 30)

\* a scan result that yields key exchanges and handshake signatures only:
\* the report has these two components and a positive overall score
C19_Witness ==
    /\ Reported
    /\ DOMAIN analyzer.output.components = {"kex", "signature"}
    /\ analyzer.output.components["kex"].weighted_average > 0
    /\ analyzer.output.components["signature"].weighted_average > 0
    /\ analyzer.output.overall_score > 0

(* ---- C21: the deprecated flag ---- *)
\* C21: a score is flagged deprecated exactly when its algorithm is a member
\* of the deprecated set (whatever the case of its letters); a name that only
\* contains a member, as ECDSA contains DSA, is not flagged.
C21_DeprecatedExactly ==
    Scored => (analyzer.output.deprecated <=> upper(analyzer.input.algorithm) \in DEPRECATED_ALGORITHMS)

(* ---- C29: hybrid, PQC and quantum-safe ---- *)
\* C29: a hybrid algorithm is a PQC algorithm, so quantum_safe is is_pqc
\* whatever the final score; SIKE, whose table score is 0, is quantum safe.
C29_QuantumSafeIsPqc ==
    Scored =>
        LET o == analyzer.output
        IN /\ o.is_hybrid => o.is_pqc
           /\ o.quantum_safe = o.is_pqc
           /\ analyzer.input.algorithm = "SIKE" => o.quantum_safe

\* SIKE scored as a key exchange: final score 0 and quantum safe
C29_Witness ==
    /\ Scored
    /\ analyzer.input.algorithm = "SIKE"
    /\ analyzer.input.algo_type = "kex"
    /\ analyzer.output.base_score = 0
    /\ analyzer.output.final_score = 0
    /\ analyzer.output.is_pqc
    /\ analyzer.output.quantum_safe

\* a hybrid below 85 that is quantum safe because it is PQC
HybridBelowThreshold ==
    /\ Scored
    /\ analyzer.output.is_hybrid
    /\ analyzer.output.final_score < 85
    /\ analyzer.output.quantum_safe

(* ---- C30: the scores of the protocol category ---- *)
\* self.PROTOCOL_SCORES.get(version, 50)
ProtocolScore(version) ==
    LET listed == {i \in 1..Len(PROTOCOL_SCORES) : PROTOCOL_SCORES[i][1] = version}
    IN IF listed = {} THEN 50 ELSE PROTOCOL_SCORES[CHOOSE i \in listed : TRUE][2]

\* C30: every score of the protocol component has the protocol table entry
\* of its version as final score; when TLS 1.3 is the only supported
\* protocol the component's weighted average is 90.
C30_ProtocolScoresFromTable ==
    (Reported /\ "protocol" \in DOMAIN analyzer.output.components) =>
        LET protocol == analyzer.output.components["protocol"]
        IN /\ \A i \in 1..Len(protocol.algorithms) :
                 protocol.algorithms[i].final_score = ProtocolScore(protocol.algorithms[i].algorithm)
           /\ analyzer.input.supported_protocols = <<"TLS 1.3">> => protocol.weighted_average = 9000

(* ---- C22: duplicates in a list of dicts ---- *)
Deduped == analyzer.method = "remove_duplicates_from_structure" /\ analyzer.status = "returned"

\* same keys and values at every nesting depth, whatever the key order
RECURSIVE structurally_identical(_, _)
structurally_identical(a, b) ==
    IF a[1] = "dict" /\ b[1] = "dict"
    THEN /\ {a[2][i][1] : i \in 1..Len(a[2])} = {b[2][i][1] : i \in 1..Len(b[2])}
         /\ \A i \in 1..Len(a[2]) : \A j \in 1..Len(b[2]) :
               a[2][i][1] = b[2][j][1] => structurally_identical(a[2][i][2], b[2][j][2])
    ELSE IF a[1] = "list" /\ b[1] = "list"
    THEN /\ Len(a[2]) = Len(b[2])
         /\ \A i \in 1..Len(a[2]) : structurally_identical(a[2][i], b[2][i])
    ELSE a[1] = b[1] /\ a[2] = b[2]

\* the entries that are not structurally identical to an earlier entry of the list
FirstOccurrences(entries) ==
    LET marked == [i \in 1..Len(entries) |-> <<i, entries[i]>>]
        kept == SelectSeq(marked, LAMBDA p :
                    \A j \in 1..(p[1] - 1) : ~structurally_identical(entries[j], entries[p[1]]))
    IN [i \in 1..Len(kept) |-> kept[i][2]]

\* C22: the result of remove_duplicates_from_structure on a list of dicts is the
\* list of its first occurrences: an entry is dropped exactly when it is
\* structurally identical (same keys and values at every depth, in any key
\* order) to an earlier entry, and the entries kept stay in their order.
C22_StructuralDuplicatesCollapse ==
    Deduped => analyzer.output = PyList(FirstOccurrences(analyzer.input[2]))

\* two entries that differ only in the key order of a dict inside a list are both kept
NestedOrderKept ==
    /\ Deduped
    /\ Len(analyzer.input[2]) = 2
    /\ structurally_identical(analyzer.input[2][1], analyzer.input[2][2])
    /\ Len(analyzer.output[2]) = 2

\* two entries with different values are collapsed into one
DifferentCollapsed ==
    /\ Deduped
    /\ Len(analyzer.input[2]) = 2
    /\ ~structurally_identical(analyzer.input[2][1], analyzer.input[2][2])
    /\ Len(analyzer.output[2]) = 1

(* ---- C23: a probe that fails without a rate limit ---- *)
NonRateLimitErrors == {TimeoutError, ToolFailedError, InvalidJsonError, WrappedNoData, DnsError}

FailedProbe(f) == f.status = "done" /\ f.out.exc # "none" /\ f.out.detail \in NonRateLimitErrors

\* the wrapper called the pipeline once for the probe, and never slept
InvokedOnce ==
    /\ \A i \in DOMAIN futures :
          FailedProbe(futures[i]) =>
              futures[i].invocations = 1 /\ futures[i].retry = 0 /\ futures[i].waits = <<>>
    /\ \A i, j \in DOMAIN futures :
          (futures[i].domain = futures[j].domain /\ futures[i].attempt = futures[j].attempt) => i = j

\* the round loop leaves the round's executor block
RoundEnds == pc \in {"collect", "drain"} /\ pc' \in {"round_start", "final"}

FailureRecorded(rs, f) ==
    /\ f.domain \in FailedSet(rs)
    /\ FailureOf(rs, f.domain).error = f.out.detail
    /\ FailureOf(rs, f.domain).last_attempt = f.attempt

C24_CacheOnlyInRoundOne ==
    /\ \A i \in DOMAIN futures :
          /\ <<futures[i].attempt, futures[i].domain>> \in dispatch_log
          /\ futures[i].use_cache <=> futures[i].attempt = 1
          /\ futures[i].status \in {"pending", "running"} => futures[i].attempt = round_num
    /\ \A k \in DOMAIN retry_state.successful_domains :
          retry_state.successful_domains[k].cached <=> retry_state.successful_domains[k].attempt = 1

\* one domain succeeded from the cache in round 1, another without it in round 2
C24_Witness ==
    \E j, k \in DOMAIN retry_state.successful_domains :
       /\ retry_state.successful_domains[j].attempt = 1
       /\ retry_state.successful_domains[j].cached
       /\ retry_state.successful_domains[k].attempt = 2
       /\ ~retry_state.successful_domains[k].cached

(* ---- C25: the timeout budget of a round ---- *)
TimedOut(f) == f.status = "done" /\ f.out.exc # "none" /\ f.out.detail = TimeoutError

\* 600, 900 and 1200 seconds
BudgetOfRound(r) == CASE r = 1 -> 600 [] r = 2 -> 900 [] r = 3 -> 1200

\* every probe runs with the budget of its round, and a probe that timed out was one invocation
BudgetsAndSingleProbe ==
    /\ \A i \in DOMAIN futures :
          /\ futures[i].timeout = BudgetOfRound(futures[i].attempt)
          /\ TimedOut(futures[i]) => futures[i].invocations = 1
    /\ \A i, j \in DOMAIN futures :
          (futures[i].domain = futures[j].domain /\ futures[i].attempt = futures[j].attempt) => i = j

\* the round loop submits the probes of a round
Dispatches == pc = "round_start" /\ pc' = "collect"

\* C25: a probe runs with the budget 600 + 300 * (r - 1) of its round r; a
\* domain whose probe timed out in round r < 3 is probed once in round r, and
\* when the request dispatches round r + 1 the domain is dispatched again with
\* a strictly larger budget.
C25_TimedOutRetriedWithLargerBudget ==
    [][/\ BudgetsAndSingleProbe'
       /\ Dispatches =>
             \A i \in DOMAIN futures :
                (TimedOut(futures[i]) /\ futures[i].attempt = round_num - 1) =>
                    /\ <<round_num, futures[i].domain>> \in dispatch_log'
                    /\ <<round_num, futures[i].domain>> \notin dispatch_log
                    /\ \E j \in DOMAIN futures' :
                          /\ futures'[j].domain = futures[i].domain
                          /\ futures'[j].attempt = round_num
                          /\ futures'[j].timeout > futures[i].timeout]_vars

\* a domain timed out in rounds 1 and 2 and is probed in round 3 with 1200 seconds
C25_Witness ==
    /\ pc = "collect"
    /\ round_num = 3
    /\ \E i \in DOMAIN futures :
          /\ futures[i].attempt = 3
          /\ futures[i].timeout = 1200
          /\ futures[i].domain \in FailedSet(retry_state)
          /\ FailureOf(retry_state, futures[i].domain).error = TimeoutError
          /\ FailureOf(retry_state, futures[i].domain).last_attempt = 2

(* ---- C26: the running total of a stream ---- *)
\* round((completed / total) * 100, 2) in hundredths of a percent; the division is exact here
percentage(completed, total) == (completed * 10000) \div total

\* C26: in every domain_complete event of a stream the running total
\* `completed` is at most `total`, the number of requested domains, and the
\* percentage is between 0 and 100.
C26_CompletedWithinTotal ==
    \A k \in DOMAIN events :
       events[k].type = "domain_complete" =>
           /\ events[k].completed <= Len(domains)
           /\ percentage(events[k].completed, Len(domains)) \in 0..10000

\* a retried domain is counted once more in every round
CountedAgain ==
    \E k \in DOMAIN events :
       /\ events[k].type = "domain_complete"
       /\ events[k].round = 2
       /\ events[k].completed = Len(domains) + 1

(* ---- C27: every outcome reaches RetryState ---- *)
\* the outcome of a finished probe, as RetryState holds it after its round
OutcomeApplied(rs, f) ==
    IF f.out.exc = "none"
    THEN \E k \in DOMAIN rs.successful_domains :
            rs.successful_domains[k].url = f.domain /\ rs.successful_domains[k].attempt = f.attempt
    ELSE /\ f.domain \in FailedSet(rs)
         /\ FailureOf(rs, f.domain).last_attempt = f.attempt

\* C27: when a round ends, the outcome of every probe of the round that a
\* worker finished has been applied to RetryState: a success is in the success
\* list, an error is in the failure map; a cancellation requested while the
\* probe was running changes nothing about it.
C27_EveryOutcomeApplied ==
    [][RoundEnds =>
          \A i \in DOMAIN futures :
             (futures[i].status = "done" /\ futures[i].attempt = round_num)
                 => OutcomeApplied(retry_state', futures[i])]_vars

\* the stream has ended and a probe that succeeded is in neither list
FinishedProbeDropped ==
    /\ pc = "done"
    /\ cancel_requested_at.pc = "collect"
    /\ \E i \in DOMAIN futures :
          /\ futures[i].status = "done"
          /\ futures[i].out.exc = "none"
          /\ ~futures[i].collected
          /\ futures[i].domain \notin SuccessSet(retry_state) \cup FailedSet(retry_state)

(* ---- C28: the registry after the stream ---- *)
CompleteEmitted == \E k \in DOMAIN events : events[k].type = "complete"

\* C28: once a stream has emitted its `complete` event the cancellation
\* registry holds no entry for the request id, wherever the /cancel-scan calls
\* fell, a call after the end of the scan included.
C28_RegistryClearedAfterComplete ==
    CompleteEmitted => ~is_scan_cancelled(scan_cancellations, RequestId)

\* the scan ran to its end uncancelled, and the entry of a later call stays
LateCancelStays ==
    /\ CompleteEmitted
    /\ cancel_requested_at.pc = "done"
    /\ is_scan_cancelled(scan_cancellations, RequestId)

\* a call that arrives during the scan is cleared by the final summary
EarlyCancelCleared ==
    /\ CompleteEmitted
    /\ cancel_requested_at.pc = "collect"
    /\ ~is_scan_cancelled(scan_cancellations, RequestId)

====
